---- MODULE Spec2Model ----
(***************************************************************************)
(* Verification development for kuishou68/tgbotVerify.                     *)
(*                                                                         *)
(* Part 1 (specification Spec): SheerIDVerifier.verify of                  *)
(* src/military/sheerid_verifier.py together with the mailbox client of    *)
(* src/utils/temp_email.py that it drives.  The SheerID server, the        *)
(* mailbox provider and the transport are the environment: every response  *)
(* is drawn from a bounded set.                                            *)
(*                                                                         *)
(* Part 2 (specifications RegSpec, RegFairSpec): run_registration_flow of  *)
(* src/outlook/register.py under the module level asyncio lock, started    *)
(* as background tasks by src/handlers/email_commands.py.                  *)
(*                                                                         *)
(* Part 3 (specification FlowSpec): the flow body of one                   *)
(* run_registration_flow call, step by step on the sign-up pages; the      *)
(* pages and the person in front of the browser are the environment.       *)
(*                                                                         *)
(* Part 4 (specifications ExtractSpec, ParseSpec): the pure functions      *)
(* TempEmailService._extract_verification_url and                          *)
(* SheerIDVerifier.parse_verification_id, applied to inputs drawn from     *)
(* bounded sets of token sequences.                                        *)
(*                                                                         *)
(* Python values: None is the empty tuple <<>> and a present value v is    *)
(* <<v>>.  A dict is a record whose fields are all optional in that sense. *)
(* Message texts are sequences of Unicode code points, so that substring   *)
(* tests are decided by the literal text of the source.                    *)
(***************************************************************************)
EXTENDS Integers, Sequences, FiniteSets, TLC

VARIABLES
    \* ---- SheerIDVerifier (one verifier object, its current verify call)
    pc,                  \* position of the verify call
    use_temp_email,      \* self.use_temp_email
    temp_email_service,  \* self.temp_email_service: TRUE when an object is held
    email,               \* local email: how the address was obtained
    current_step,        \* local current_step (step 1 currentStep)
    submission_url,      \* local submission_url
    step1_data,          \* locals step1_data, step1_status
    step2_data,          \* locals step2_data, step2_status
    final_step,          \* local final_step
    final_data,          \* local final_data (status re-check payload)
    verification_url,    \* local verification_url (result of the mailbox poll)
    link_followed,       \* local success (result of click_verification_link)
    elapsed,             \* time.time() - start_time inside the poll
    log,                 \* requests issued by the current call, in order
    outcomes,            \* records returned by the current call
    escaped,             \* exceptions that left the current call
    \* ---- run_registration_flow tasks
    rpc,                 \* position of each background task
    locked,              \* registration_lock._locked
    waiters,             \* registration_lock._waiters (FIFO)
    woken,               \* waiter whose future release() has resolved
    browser,             \* per task: "none", "open", "closed"
    result,              \* per task: what run_registration_flow gave its caller
    notified,            \* per task: message sent to the chat by run_and_notify
    resumed,             \* task that last took the lock from the queue (history)
    \* ---- the flow body of one run_registration_flow call
    fpc,                 \* position in the flow body
    field,               \* birth-date field being filled: "month" or "day"
    attempt,             \* loop variable attempt of select_dropdown_option
    sel_ok,              \* local ok: what select_dropdown_option returned
    has_value,           \* what combobox_has_value returned, None if not called
    chosen_by,           \* per field: the path that put a value in the control
    ftrace,              \* the steps taken by the flow, in order (history)
    fresult,             \* the (success, message) the flow body returned
    final_url,           \* URL the page shows when the last wait is over
    \* ---- TempEmailService._extract_verification_url
    client,              \* self.email, self.token, self.account_id
    mail_message,        \* the message dict handed to the function
    extracted,           \* what each call on the message returned, in order
    \* ---- SheerIDVerifier.parse_verification_id
    id_url,              \* the argument url
    parsed,              \* what each call on the url returned, in order
    \* ---- TempEmailService.wait_for_sheerid_email
    wpc,                 \* position of the call: "idle", "loop", "returned", "raised"
    wclock,              \* time.time() - start_time
    wpolls,              \* calls of get_messages made so far (history)
    winbox,              \* the inbox listed by the poll that ended the call
    wurl,                \* the url the call returned, None for no url
    \* ---- wait_for_human_verification and the gate of the flow that calls it
    hpc,                 \* position: "gate", "entry", "loop", "returned", "proceeded", "failed"
    hgate,               \* the gate of the flow: "checked" or "after_email"
    overlay,             \* the human-verification iframe: "absent", "hidden", "visible"
    hclock,              \* (time.monotonic() - start) * 1000
    hresult,             \* what wait_for_human_verification returned
    hseen,               \* the overlay when the flow left the gate (history)
    \* ---- Database.deduct_balance called by several callers
    dbal,                \* users.balance of the user, None when there is no row
    dpc,                 \* position of each caller: "call", "update", "done"
    damt,                \* the amount of each call
    dread,               \* the row that get_user returned to each caller
    dret,                \* what each call returned
    \* ---- Database.use_card_key
    kcard,               \* the row of the card key
    kusage,              \* card_key_usage: the user of each record of the key
    kbal,                \* users.balance of each user that has a row
    kcall,               \* the last call: its arguments, its result and the
                         \* tables before it (history)
    \* ---- Database.can_checkin and Database.checkin
    cnow,                \* the time (UTC), in parts of a day
    ctz,                 \* local time minus UTC, in parts of a day
    cbal,                \* users.balance of the user
    clast,               \* users.last_checkin: the local time it was written
    ccall,               \* the last call of checkin: what can_checkin said
                         \* just before it, and its result (history)
    cwins                \* the local day of every successful checkin (history)

verVars == <<pc, use_temp_email, temp_email_service, email, current_step,
             submission_url, step1_data, step2_data, final_step, final_data,
             verification_url, link_followed, elapsed, log, outcomes,
             escaped>>
regVars == <<rpc, locked, waiters, woken, browser, result, notified,
             resumed>>
flowVars == <<fpc, field, attempt, sel_ok, has_value, chosen_by, ftrace,
              fresult, final_url>>
mailVars == <<client, mail_message, extracted>>
urlVars == <<id_url, parsed>>
waitVars == <<wpc, wclock, wpolls, winbox, wurl>>
humanVars == <<hpc, hgate, overlay, hclock, hresult, hseen>>
dedVars == <<dbal, dpc, damt, dread, dret>>
keyVars == <<kcard, kusage, kbal, kcall>>
chkVars == <<cnow, ctz, cbal, clast, ccall, cwins>>
dbVars == <<dedVars, keyVars, chkVars>>
moreVars == <<waitVars, humanVars, dbVars>>
extVars == <<flowVars, mailVars, urlVars, moreVars>>
\* the variables of parts 1 to 4
coreVars == <<verVars, regVars, flowVars, mailVars, urlVars>>
\* what the steps of one of the further parts leave alone
waitRest == <<coreVars, humanVars, dbVars>>
humanRest == <<coreVars, waitVars, dbVars>>
dedRest == <<coreVars, waitVars, humanVars, keyVars, chkVars>>
keyRest == <<coreVars, waitVars, humanVars, dedVars, chkVars>>
chkRest == <<coreVars, waitVars, humanVars, dedVars, keyVars>>
vars == <<verVars, regVars, extVars>>

----------------------------------------------------------------------------
\* Bounds of the model.

\* Longest errorIds list the server sends.
MaxErrorIds == 2
\* Number of /email_register triggers (one background task each).
NumTasks == 2
\* Most words in the HTML part of a message.
MaxWords == 2
\* Most tokens of a url handed to parse_verification_id.
MaxUrlLen == 4
\* Most calls of a pure function on one input.
MaxCalls == 2
\* Most messages in the inbox that one poll lists.
MaxInbox == 2

----------------------------------------------------------------------------
\* Python values.

None == <<>>
Some(v) == <<v>>
\* dict.get(key, default) on an optional field
GetOr(o, default) == IF o = <<>> THEN default ELSE o[1]
\* Python truthiness of an optional string
Truthy(o) == o # <<>> /\ o[1] # ""

----------------------------------------------------------------------------
\* Message texts of sheerid_verifier.py, as code points.

\* line 214, f-string head: 'step 1 failed (status code '
MSG_STEP1_FAILED_PREFIX ==
    <<27493, 39588, 32, 49, 32, 22833, 36133, 32, 40, 29366, 24577, 30721,
     32>>

\* line 257, f-string head: 'step 2 failed (status code '
MSG_STEP2_FAILED_PREFIX ==
    <<27493, 39588, 32, 50, 32, 22833, 36133, 32, 40, 29366, 24577, 30721,
     32>>

\* lines 214/257, f-string text between the status code and the payload
MSG_FAILED_MIDDLE ==
    <<41, 58, 32>>

\* line 217, f-string head: 'step 1 error: '
MSG_STEP1_ERROR_PREFIX ==
    <<27493, 39588, 32, 49, 32, 38169, 35823, 58, 32>>

\* line 260, f-string head: 'step 2 error: '
MSG_STEP2_ERROR_PREFIX ==
    <<27493, 39588, 32, 50, 32, 38169, 35823, 58, 32>>

\* lines 216/259, separator of the join
JOIN_SEP ==
    <<44, 32>>

\* line 292: 'verified (email confirmation completed automatically)'
MSG_EMAIL_SUCCESS ==
    <<35748, 35777, 25104, 21151, 65288, 24050, 33258, 21160, 23436, 25104,
     37038, 31665, 39564, 35777, 65289>>

\* line 302: 'mailbox verified, awaiting review'
MSG_EMAIL_PENDING ==
    <<37038, 31665, 24050, 39564, 35777, 65292, 31561, 24453, 23457, 26680>>

\* line 319: 'SheerID requires mailbox verification, automatic verification failed. ...'
MSG_EMAIL_FAILED ==
    <<83, 104, 101, 101, 114, 73, 68, 32, 35201, 27714, 39564, 35777, 37038,
     31665, 65292, 33258, 21160, 39564, 35777, 22833, 36133, 12290, 35831,
     20351, 29992, 30495, 23454, 21487, 25509, 25910, 37038, 20214, 30340,
     37038, 31665, 37325, 26032, 33719, 21462, 39564, 35777, 38142, 25509,
     12290>>

\* line 330: 'military document upload required, not supported in this version'
MSG_DOC_UPLOAD ==
    <<38656, 35201, 19978, 20256, 20891, 20154, 36523, 20221, 35777, 26126,
     25991, 26723, 65292, 24403, 21069, 29256, 26412, 26242, 19981, 25903,
     25345>>

\* line 341: 'verified'
MSG_SUCCESS ==
    <<35748, 35777, 25104, 21151>>

\* line 353: 'information submitted, awaiting review'
MSG_PENDING ==
    <<20449, 24687, 24050, 25552, 20132, 65292, 31561, 24453, 23457, 26680>>

\* line 364, f-string head: 'unknown state: '
MSG_UNKNOWN_PREFIX ==
    <<26410, 30693, 29366, 24577, 58, 32>>

\* str() of the AttributeError of .get on a JSON array payload
MSG_LIST_HAS_NO_GET ==
    <<39, 108, 105, 115, 116, 39, 32, 111, 98, 106, 101, 99, 116, 32, 104,
     97, 115, 32, 110, 111, 32, 97, 116, 116, 114, 105, 98, 117, 116, 101,
     32, 39, 103, 101, 116, 39>>

\* str() of an httpx transport error re-raised at line 146
MSG_TRANSPORT ==
    <<65, 108, 108, 32, 99, 111, 110, 110, 101, 99, 116, 105, 111, 110, 32,
     97, 116, 116, 101, 109, 112, 116, 115, 32, 102, 97, 105, 108, 101,
     100>>

\* the ASCII word email
NEEDLE_EMAIL ==
    <<101, 109, 97, 105, 108>>

\* Characters (code points) of the strings the model formats into messages.
CodePoints ==
    "error" :> <<101, 114, 114, 111, 114>>
    @@ "success" :> <<115, 117, 99, 99, 101, 115, 115>>
    @@ "pending" :> <<112, 101, 110, 100, 105, 110, 103>>
    @@ "emailLoop" :> <<101, 109, 97, 105, 108, 76, 111, 111, 112>>
    @@ "docUpload" :> <<100, 111, 99, 85, 112, 108, 111, 97, 100>>
    @@ "newStep" :> <<110, 101, 119, 83, 116, 101, 112>>
    @@ "collectInactiveMilitaryPersonalInfo" :>
        <<99, 111, 108, 108, 101, 99, 116, 73, 110, 97, 99, 116, 105, 118,
          101, 77, 105, 108, 105, 116, 97, 114, 121, 80, 101, 114, 115, 111,
          110, 97, 108, 73, 110, 102, 111>>
    @@ "unknown" :> <<117, 110, 107, 110, 111, 119, 110>>
    @@ "None" :> <<78, 111, 110, 101>>
    @@ "notApproved" :> <<110, 111, 116, 65, 112, 112, 114, 111, 118, 101, 100>>
    @@ "expiredVerification" :>
        <<101, 120, 112, 105, 114, 101, 100, 86, 101, 114, 105, 102, 105, 99,
          97, 116, 105, 111, 110>>
    @@ "bad" :> <<98, 97, 100>>
    @@ "Unknown error" :> <<85, 110, 107, 110, 111, 119, 110, 32, 101, 114, 114, 111, 114>>

\* str() of the AttributeError of None.lower() at temp_email.py line 202
MSG_NONE_HAS_NO_LOWER ==
    <<39, 78, 111, 110, 101, 84, 121, 112, 101, 39, 32, 111, 98, 106, 101,
     99, 116, 32, 104, 97, 115, 32, 110, 111, 32, 97, 116, 116, 114, 105,
     98, 117, 116, 101, 32, 39, 108, 111, 119, 101, 114, 39>>

\* The text of str(payload) inside the non-200 messages: it depends on the
\* key order of the server's JSON and is kept as one opaque character (NUL).
PAYLOAD_TEXT == <<0>>

Cp(s) == CodePoints[s]

\* str(n) of a non-negative int
RECURSIVE IntText(_)
IntText(n) ==
    IF n < 10 THEN <<48 + n>> ELSE IntText(n \div 10) \o <<48 + (n % 10)>>

\* ", ".join(ids)
RECURSIVE Join(_)
Join(ids) ==
    IF Len(ids) = 0 THEN <<>>
    ELSE IF Len(ids) = 1 THEN Cp(ids[1])
    ELSE Cp(ids[1]) \o JOIN_SEP \o Join(Tail(ids))

\* Python's  sub in text  on code point sequences
Contains(text, sub) ==
    \E i \in 0..(Len(text) - Len(sub)) :
        \A k \in 1..Len(sub) : text[i + k] = sub[k]

\* f"{x}" of an optional string: the text itself, or None
FormatOpt(o) == IF o = <<>> THEN Cp("None") ELSE Cp(o[1])

----------------------------------------------------------------------------
\* Configuration (src/military/config.py) and the verifier's identity.

SHEERID_BASE_URL == "https://services.sheerid.com"
ORGANIZATION_IDS == {"4070", "4073", "4072", "4071", "4074", "4544268"}
VerificationId == "abc123ef"
HTTP_OK == 200
MAX_WAIT == 90
POLL_INTERVAL == 5

Step1Url ==
    SHEERID_BASE_URL \o "/rest/v2/verification/" \o VerificationId
        \o "/step/collectMilitaryStatus"
Step2DefaultUrl ==
    SHEERID_BASE_URL \o "/rest/v2/verification/" \o VerificationId
        \o "/step/collectInactiveMilitaryPersonalInfo"
StatusUrl == SHEERID_BASE_URL \o "/rest/v2/verification/" \o VerificationId

----------------------------------------------------------------------------
\* The environment of verify: what the server and the mailbox may answer.

ErrorIdPool == {"notApproved", "expiredVerification"}
ErrorIdLists == UNION {[1..n -> ErrorIdPool] : n \in 0..MaxErrorIds}
OptErrorIds == {None} \cup {Some(l) : l \in ErrorIdLists}
SubmissionUrls == {None, Some(""), Some("https://services.sheerid.com/submit")}
RedirectUrls == {None, Some("https://x")}
RewardCodes == {None, Some("R1")}
Statuses == {200, 500}
Step2Names ==
    {"success", "pending", "emailLoop", "docUpload", "newStep"}
Links == {"https://services.sheerid.com/verify/abc123ef?token=t1"}

\* A JSON object payload.  A body that is not JSON becomes {"raw": text}
\* (line 142): an object with none of the keys below.
Payload(cs, ei, su, ru, rc) ==
    [kind |-> "dict", currentStep |-> cs, errorIds |-> ei,
     submissionUrl |-> su, redirectUrl |-> ru, rewardCode |-> rc]
\* A JSON array payload: response.json() returns a list.
ListPayload ==
    [kind |-> "list", currentStep |-> None, errorIds |-> None,
     submissionUrl |-> None, redirectUrl |-> None, rewardCode |-> None]

Step1Payloads ==
    {Payload(Some("error"), ei, su, None, None) :
        ei \in OptErrorIds, su \in SubmissionUrls}
    \cup {Payload(cs, None, su, None, None) :
        cs \in {None, Some("collectInactiveMilitaryPersonalInfo"),
                 Some("collectMilitaryStatus")},
        su \in SubmissionUrls}
    \cup {ListPayload}
StepResultPayloads ==
    {Payload(Some("error"), ei, None, None, None) : ei \in OptErrorIds}
    \cup {Payload(cs, None, None, ru, rc) :
        cs \in {None} \cup {Some(s) : s \in Step2Names},
        ru \in RedirectUrls, rc \in RewardCodes}
    \cup {ListPayload}

\* What _sheerid_request gives its caller: (data, status), or the transport
\* exception re-raised at line 146.
Raised == [raised |-> TRUE, data |-> ListPayload, status |-> 0]
Responses(payloads) ==
    {[raised |-> FALSE, data |-> d, status |-> s] :
        d \in payloads, s \in Statuses} \cup {Raised}

\* What create_account meets: success, or a failure at one of its stages.
MailboxResults == {"ok", "no_domain", "create_failed", "login_failed"}
\* What one poll of the inbox meets.
PollResults ==
    {[kind |-> "link", url |-> l] : l \in Links}
    \cup {[kind |-> "nothing", url |-> ""], [kind |-> "malformed", url |-> ""]}
\* What the GET of the confirmation link meets.
LinkResponses ==
    {[raised |-> FALSE, status |-> s, positive |-> p, negative |-> n] :
        s \in {200, 404}, p \in BOOLEAN, n \in BOOLEAN}
    \cup {[raised |-> TRUE, status |-> 0, positive |-> FALSE,
           negative |-> FALSE]}

----------------------------------------------------------------------------
\* Outcome records of verify.

Outcome(success, pending, message, redirect, reward, step, status) ==
    [success |-> Some(success), pending |-> pending,
     message |-> Some(message), verification_id |-> Some(VerificationId),
     redirect_url |-> redirect, reward_code |-> reward,
     current_step |-> step, status |-> status]

\* lines 373-377
ExceptOutcome(msg) == Outcome(FALSE, None, msg, None, None, None, None)
\* the variant of EmailSuccessOutcome that reports the stale step-2 payload
EmailSuccessOutcomeStale(data) ==
    Outcome(TRUE, Some(FALSE), MSG_EMAIL_SUCCESS, step2_data[1].data.redirectUrl,
            step2_data[1].data.rewardCode, None, Some(step2_data[1].data))
\* lines 289-297
EmailSuccessOutcome(data) ==
    Outcome(TRUE, Some(FALSE), MSG_EMAIL_SUCCESS, data.redirectUrl,
            data.rewardCode, None, Some(data))
\* lines 299-307
EmailPendingOutcome(data, step) ==
    Outcome(TRUE, Some(TRUE), MSG_EMAIL_PENDING, data.redirectUrl, None,
            step, Some(data))
\* the variant of EmailFailedOutcome that reports the unknown-state failure
EmailFailedOutcomeUnknown(step, data) ==
    Outcome(FALSE, None, MSG_UNKNOWN_PREFIX \o FormatOpt(step), None, None,
            step, Some(data))
\* lines 317-323
EmailFailedOutcome(step, data) ==
    Outcome(FALSE, None, MSG_EMAIL_FAILED, None, None, step, Some(data))
\* lines 328-334
DocUploadOutcome(step, data) ==
    Outcome(FALSE, None, MSG_DOC_UPLOAD, None, None, step, Some(data))
\* the variant of SuccessOutcome that forgets the reward code
SuccessOutcomeNoReward(data) ==
    Outcome(TRUE, Some(FALSE), MSG_SUCCESS, data.redirectUrl, None, None,
            Some(data))
\* lines 338-346
SuccessOutcome(data) ==
    Outcome(TRUE, Some(FALSE), MSG_SUCCESS, data.redirectUrl, data.rewardCode,
            None, Some(data))
\* lines 350-358
PendingOutcome(step, data) ==
    Outcome(TRUE, Some(TRUE), MSG_PENDING, data.redirectUrl, None, step,
            Some(data))
\* lines 362-369: step is the optional currentStep, formatted into the text
UnknownOutcome(step, data) ==
    Outcome(FALSE, None, MSG_UNKNOWN_PREFIX \o FormatOpt(step),
            data.redirectUrl, None, step, Some(data))

----------------------------------------------------------------------------
\* Control flow of verify.

\* a return statement inside the try block
Return(o) ==
    /\ outcomes' = Append(outcomes, o)
    /\ escaped' = escaped
    /\ pc' = "done"

\* the variant of Raise in which the handler of lines 371-377 is missing
RaiseUncaught(msg) ==
    /\ outcomes' = outcomes
    /\ escaped' = escaped + 1
    /\ pc' = "done"

\* an exception raised inside the try block: caught at line 371 and turned
\* into the failed outcome of lines 373-377
Raise(msg) == Return(ExceptOutcome(msg))

Goto(p) ==
    /\ pc' = p
    /\ UNCHANGED <<outcomes, escaped>>

\* vid is the metadata.verificationId of the request body, None when the
\* body has none
LoggedWith(op, url, vid) ==
    log' = Append(log, [op |-> op, url |-> url, vid |-> vid])
Logged(op, url) == LoggedWith(op, url, None)

\* the variant of step2_url that ignores what step 1 returned
step2_url_default(su) == Step2DefaultUrl
\* lines 226-229: where the step-2 request goes
step2_url(su) == IF Truthy(su) THEN su[1] ELSE Step2DefaultUrl

\* click_verification_link, lines 264-296: the boolean of its result
click_verification_link(r) ==
    IF r.raised THEN FALSE
    ELSE IF r.status = HTTP_OK
         THEN IF r.positive THEN TRUE
              ELSE IF r.negative THEN FALSE
              ELSE TRUE
         ELSE FALSE

\* the variant of create_account that returns an address whatever happened
create_account_unchecked(m) == TRUE
\* TempEmailService.create_account, lines 55-104: TRUE when an address is
\* returned
create_account(m) == m = "ok"

\* lines 316-323, reached from lines 309, 311, 313 and from a missing
\* mailbox client
EmailFallThrough(step) == Return(EmailFailedOutcome(step, step2_data[1].data))

\* lines 215 and 258: the server declared the error step
IsErrorStepNever(data) == FALSE
IsErrorStep(data) == data.currentStep = Some("error")

\* lines 216-217 and 259-260: the text of the exception raised for it
ErrorMessageBare(prefix, data) == prefix
ErrorMessage(prefix, data) ==
    prefix \o Join(GetOr(data.errorIds, <<"Unknown error">>))

\* lines 148-202: arguments, defaults, the mailbox, the organization lookup
Verify_Begin(arg_email, arg_org, mailbox) ==
    /\ pc \in {"idle", "done"}
    /\ current_step' = None
    /\ submission_url' = None
    /\ step1_data' = None
    /\ step2_data' = None
    /\ final_step' = None
    /\ final_data' = None
    /\ verification_url' = None
    /\ link_followed' = None
    /\ elapsed' = 0
    /\ IF arg_email
       THEN /\ email' = "given"
            /\ temp_email_service' = temp_email_service
            /\ log' = <<>>
       ELSE IF use_temp_email
            THEN \* the entry records the stage at which creation ended
                 /\ log' = <<[op |-> "create_account", url |-> mailbox, vid |-> None]>>
                 /\ IF create_account(mailbox)
                    THEN email' = "temp" /\ temp_email_service' = TRUE
                    ELSE email' = "generated" /\ temp_email_service' = FALSE
            ELSE /\ email' = "generated"
                 /\ temp_email_service' = temp_email_service
                 /\ log' = <<>>
    /\ LET org == IF arg_org = None THEN "4070" ELSE arg_org[1]
       IN  IF org \in ORGANIZATION_IDS
           THEN /\ pc' = "step1"
                /\ outcomes' = <<>>
                /\ escaped' = 0
           ELSE \* KeyError at line 194; str() of it is the repr of the key
                /\ outcomes' = <<ExceptOutcome(<<39>> \o Cp(org) \o <<39>>)>>
                /\ escaped' = 0
                /\ pc' = "done"
    /\ UNCHANGED use_temp_email
    /\ UNCHANGED <<regVars, extVars>>

\* lines 204-221: the step-1 POST and its checks
Verify_Step1(resp) ==
    /\ pc = "step1"
    /\ Logged("POST", Step1Url)
    /\ IF resp.raised
       THEN /\ Raise(MSG_TRANSPORT)
            /\ UNCHANGED <<step1_data, current_step, submission_url>>
       ELSE /\ step1_data' = Some(resp)
            /\ IF resp.status # HTTP_OK
               THEN /\ Raise(MSG_STEP1_FAILED_PREFIX \o IntText(resp.status)
                             \o MSG_FAILED_MIDDLE \o PAYLOAD_TEXT)
                    /\ UNCHANGED <<current_step, submission_url>>
               ELSE IF resp.data.kind = "list"
               THEN /\ Raise(MSG_LIST_HAS_NO_GET)
                    /\ UNCHANGED <<current_step, submission_url>>
               ELSE IF IsErrorStep(resp.data)
               THEN /\ Raise(ErrorMessage(MSG_STEP1_ERROR_PREFIX, resp.data))
                    /\ UNCHANGED <<current_step, submission_url>>
               ELSE /\ current_step' = resp.data.currentStep
                    /\ submission_url' = resp.data.submissionUrl
                    /\ Goto("step2")
    /\ UNCHANGED <<use_temp_email, temp_email_service, email,
                   step2_data, final_step, final_data, verification_url,
                   link_followed, elapsed>>
    /\ UNCHANGED <<regVars, extVars>>

\* the variant of DispatchTerminal that takes every unrecognized step for
\* a pending one
DispatchTerminalLenient(step, data) ==
    IF step = Some("success") THEN Return(SuccessOutcome(data))
    ELSE Return(PendingOutcome(step, data))

\* the variant of DispatchTerminal that lets the mailbox confirm the step
\* first when the run holds a mailbox client
DispatchTerminalViaMailbox(step, data) ==
    IF temp_email_service THEN Goto("poll")
    ELSE IF step = Some("success") THEN Return(SuccessOutcome(data))
    ELSE IF step = Some("pending") THEN Return(PendingOutcome(step, data))
    ELSE Return(UnknownOutcome(step, data))
\* lines 336-369: the branches taken when the step is neither emailLoop nor
\* docUpload
DispatchTerminal(step, data) ==
    IF step = Some("success") THEN Return(SuccessOutcome(data))
    ELSE IF step = Some("pending") THEN Return(PendingOutcome(step, data))
    ELSE Return(UnknownOutcome(step, data))

\* lines 223-369: the step-2 POST, its checks and the dispatch on currentStep
Verify_Step2(resp) ==
    /\ pc = "step2"
    /\ LoggedWith("POST", step2_url(submission_url), Some(VerificationId))
    /\ IF resp.raised
       THEN /\ Raise(MSG_TRANSPORT)
            /\ UNCHANGED <<step2_data, final_step>>
       ELSE /\ step2_data' = Some(resp)
            /\ IF resp.status # HTTP_OK
               THEN /\ Raise(MSG_STEP2_FAILED_PREFIX \o IntText(resp.status)
                             \o MSG_FAILED_MIDDLE \o PAYLOAD_TEXT)
                    /\ UNCHANGED final_step
               ELSE IF resp.data.kind = "list"
               THEN /\ Raise(MSG_LIST_HAS_NO_GET)
                    /\ UNCHANGED final_step
               ELSE IF IsErrorStep(resp.data)
               THEN /\ Raise(ErrorMessage(MSG_STEP2_ERROR_PREFIX, resp.data))
                    /\ UNCHANGED final_step
               ELSE /\ final_step' = resp.data.currentStep
                    /\ IF resp.data.currentStep = Some("emailLoop")
                       THEN IF temp_email_service
                            THEN Goto("poll")
                            ELSE Return(EmailFailedOutcome(
                                     resp.data.currentStep, resp.data))
                       ELSE IF resp.data.currentStep = Some("docUpload")
                       THEN Return(DocUploadOutcome(resp.data.currentStep,
                                                    resp.data))
                       ELSE DispatchTerminal(resp.data.currentStep, resp.data)
    /\ UNCHANGED <<use_temp_email, temp_email_service, email,
                   step1_data, current_step, submission_url, final_data,
                   verification_url, link_followed, elapsed>>
    /\ UNCHANGED <<regVars, extVars>>

\* temp_email.py lines 196-219: one round of wait_for_sheerid_email.  The
\* clock of the loop is advanced by the sleep of line 219 alone.
Verify_Poll(r) ==
    /\ pc = "poll"
    /\ elapsed < MAX_WAIT
    /\ Logged("poll", "")
    /\ IF r.kind = "link"
       THEN /\ verification_url' = Some(r.url)
            /\ elapsed' = elapsed
            /\ Goto("click")
       ELSE IF r.kind = "malformed"
       THEN /\ Raise(MSG_NONE_HAS_NO_LOWER)
            /\ UNCHANGED <<verification_url, elapsed>>
       ELSE /\ elapsed' = elapsed + POLL_INTERVAL
            /\ Goto("poll")
            /\ UNCHANGED verification_url
    /\ UNCHANGED <<use_temp_email, temp_email_service, email,
                   step1_data, step2_data, current_step, submission_url,
                   final_step, final_data, link_followed>>
    /\ UNCHANGED <<regVars, extVars>>

\* temp_email.py lines 196, 221-222, then lines 312-323 of verify
Verify_PollTimeout ==
    /\ pc = "poll"
    /\ ~(elapsed < MAX_WAIT)
    /\ verification_url' = None
    /\ EmailFallThrough(final_step)
    /\ UNCHANGED <<use_temp_email, temp_email_service, email,
                   step1_data, step2_data, current_step, submission_url,
                   final_step, final_data, link_followed, elapsed, log>>
    /\ UNCHANGED <<regVars, extVars>>

\* lines 277-281, 310-323: follow the confirmation link
Verify_Click(r) ==
    /\ pc = "click"
    /\ Logged("click", verification_url[1])
    /\ link_followed' = Some(click_verification_link(r))
    /\ IF click_verification_link(r)
       THEN Goto("recheck")
       ELSE EmailFallThrough(final_step)
    /\ UNCHANGED <<use_temp_email, temp_email_service, email,
                   step1_data, step2_data, current_step, submission_url,
                   final_step, final_data, verification_url, elapsed>>
    /\ UNCHANGED <<regVars, extVars>>

\* lines 282-323: the status GET after the confirmation and its branches
Verify_Recheck(resp) ==
    /\ pc = "recheck"
    /\ Logged("GET", StatusUrl)
    /\ IF resp.raised
       THEN /\ Raise(MSG_TRANSPORT)
            /\ UNCHANGED <<final_data, final_step>>
       ELSE /\ final_data' = Some(resp)
            /\ IF resp.data.kind = "list"
               THEN /\ Raise(MSG_LIST_HAS_NO_GET)
                    /\ UNCHANGED final_step
               ELSE LET step == Some(GetOr(resp.data.currentStep, "unknown"))
                    IN  /\ final_step' = step
                        /\ IF step = Some("success")
                           THEN Return(EmailSuccessOutcome(resp.data))
                           ELSE IF step = Some("pending")
                           THEN Return(EmailPendingOutcome(resp.data, step))
                           ELSE EmailFallThrough(step)
    /\ UNCHANGED <<use_temp_email, temp_email_service, email,
                   step1_data, step2_data, current_step, submission_url,
                   verification_url, link_followed, elapsed>>
    /\ UNCHANGED <<regVars, extVars>>

----------------------------------------------------------------------------
\* run_registration_flow under registration_lock (src/outlook/register.py)
\* and the background task of email_commands.py that runs it.

Tasks == 1..NumTasks

NoResult == [kind |-> "none", success |-> FALSE, message |-> "", account |-> 0]
\* the tuple (success, message, account) of a return statement
Tuple(success, message, account) ==
    [kind |-> "tuple", success |-> success, message |-> message,
     account |-> account]
\* an exception leaving run_registration_flow
Exc(message, account) ==
    [kind |-> "exception", success |-> FALSE, message |-> message,
     account |-> account]

\* The return statements of the flow body (lines 329-548), and an exception
\* raised by one of its steps.
FlowEnds ==
    {[raised |-> FALSE, success |-> TRUE,
      message |-> "Registration successful!"],
     [raised |-> FALSE, success |-> FALSE,
      message |-> "Timed out waiting for completion."],
     [raised |-> FALSE, success |-> FALSE,
      message |-> "Account creation blocked by security."],
     [raised |-> TRUE, success |-> FALSE, message |-> "Timeout 60000ms"]}

\* asyncio.Lock.acquire: the lock is taken at once only when it is free and
\* nobody is queued for it
CanAcquireEager == TRUE
CanAcquire == ~locked /\ waiters = <<>>

\* asyncio.Lock.release: the waiter woken by release(), the first in line
NoWakeUp == None
WakeUpFirst == IF waiters = <<>> THEN None ELSE Some(Head(waiters))

\* leaving the  async with registration_lock  block (line 289)
KeepLock == UNCHANGED <<locked, woken>>
ReleaseLock ==
    /\ locked' = FALSE
    /\ woken' = WakeUpFirst

\* email_commands.py lines 9-67: the handler replies and schedules
\* run_and_notify as a task
Trigger(t) ==
    /\ rpc[t] = "idle"
    /\ rpc' = [rpc EXCEPT ![t] = "created"]
    /\ UNCHANGED <<locked, waiters, woken, browser, result, notified>>
    /\ UNCHANGED <<resumed, verVars, extVars>>

\* line 289, entering  async with registration_lock
Acquire(t) ==
    /\ rpc[t] = "created"
    /\ IF CanAcquire
       THEN /\ locked' = TRUE
            /\ rpc' = [rpc EXCEPT ![t] = "holding"]
            /\ resumed' = None
            /\ UNCHANGED waiters
       ELSE /\ waiters' = Append(waiters, t)
            /\ rpc' = [rpc EXCEPT ![t] = "waiting"]
            /\ UNCHANGED <<locked, resumed>>
    /\ UNCHANGED <<woken, browser, result, notified>>
    /\ UNCHANGED <<verVars, extVars>>

\* line 289, a queued acquire resumes after release() resolved its future
Resume(t) ==
    /\ rpc[t] = "waiting"
    /\ woken = Some(t)
    /\ waiters' = SelectSeq(waiters, LAMBDA w : w # t)
    /\ locked' = TRUE
    /\ woken' = None
    /\ rpc' = [rpc EXCEPT ![t] = "holding"]
    /\ resumed' = Some(t)
    /\ UNCHANGED <<browser, result, notified>>
    /\ UNCHANGED <<verVars, extVars>>

\* lines 290-310: credentials, playwright start, browser launch
Run_Launch(t, o) ==
    /\ rpc[t] = "holding"
    /\ IF o = "ok"
       THEN /\ browser' = [browser EXCEPT ![t] = "open"]
            /\ rpc' = [rpc EXCEPT ![t] = "launched"]
            /\ UNCHANGED <<locked, woken, result>>
       ELSE IF o = "launch_fails"
       THEN \* raised inside  async with async_playwright()
            /\ result' = [result EXCEPT ![t] = Exc("launch failed", t)]
            /\ rpc' = [rpc EXCEPT ![t] = "stopping"]
            /\ UNCHANGED <<locked, woken, browser>>
       ELSE \* async_playwright() itself fails: only the lock is left
            /\ result' = [result EXCEPT ![t] = Exc("driver failed", t)]
            /\ rpc' = [rpc EXCEPT ![t] = "ended"]
            /\ ReleaseLock
            /\ UNCHANGED browser
    /\ UNCHANGED <<waiters, notified>>
    /\ UNCHANGED <<resumed, verVars, extVars>>

\* lines 312-327: new_context, add_init_script, new_page (outside the try)
Run_Page(t, ok) ==
    /\ rpc[t] = "launched"
    /\ IF ok
       THEN /\ rpc' = [rpc EXCEPT ![t] = "flow"]
            /\ UNCHANGED result
       ELSE /\ result' = [result EXCEPT ![t] = Exc("page failed", t)]
            /\ rpc' = [rpc EXCEPT ![t] = "stopping"]
    /\ UNCHANGED <<locked, waiters, woken, browser, notified>>
    /\ UNCHANGED <<resumed, verVars, extVars>>

\* lines 329-552: the flow body inside the try, and its except clause
Run_Flow(t, e) ==
    /\ rpc[t] = "flow"
    /\ result' = [result EXCEPT ![t] =
           IF e.raised
           THEN \* lines 550-552: save_debug_info, then the failed tuple
                Tuple(FALSE, "Flow error: " \o e.message, t)
           ELSE Tuple(e.success, e.message, t)]
    /\ rpc' = [rpc EXCEPT ![t] = "closing"]
    /\ UNCHANGED <<locked, waiters, woken, browser, notified>>
    /\ UNCHANGED <<resumed, verVars, extVars>>

\* lines 553-554: finally: await browser.close()
Run_CloseSkipped(t, ok) ==
    /\ rpc[t] = "closing"
    /\ rpc' = [rpc EXCEPT ![t] = "stopping"]
    /\ UNCHANGED <<locked, waiters, woken, browser, result, notified>>
    /\ UNCHANGED <<resumed, verVars, extVars>>
Run_Close(t, ok) ==
    /\ rpc[t] = "closing"
    /\ IF ok
       THEN /\ browser' = [browser EXCEPT ![t] = "closed"]
            /\ UNCHANGED result
       ELSE \* the exception of close() replaces the pending return value
            /\ result' = [result EXCEPT ![t] = Exc("close failed", t)]
            /\ UNCHANGED browser
    /\ rpc' = [rpc EXCEPT ![t] = "stopping"]
    /\ UNCHANGED <<locked, waiters, woken, notified>>
    /\ UNCHANGED <<resumed, verVars, extVars>>

\* leaving  async with async_playwright()  (line 302), which stops the
\* driver and every browser it still runs, then leaving the lock (line 289)
Run_Exit(t) ==
    /\ rpc[t] = "stopping"
    /\ browser' = [browser EXCEPT ![t] =
           IF browser[t] = "open" THEN "stopped" ELSE browser[t]]
    /\ ReleaseLock
    /\ rpc' = [rpc EXCEPT ![t] = "ended"]
    /\ UNCHANGED <<waiters, result, notified>>
    /\ UNCHANGED <<resumed, verVars, extVars>>

\* email_commands.py lines 32-64: run_and_notify reports to the chat
Notify(t) ==
    /\ rpc[t] = "ended"
    /\ notified' = [notified EXCEPT ![t] =
           IF result[t].kind = "tuple"
           THEN IF result[t].success THEN "finished_ok"
                ELSE "finished_warning"
           ELSE "critical_error"]
    /\ rpc' = [rpc EXCEPT ![t] = "notified"]
    /\ UNCHANGED <<locked, waiters, woken, browser, result>>
    /\ UNCHANGED <<resumed, verVars, extVars>>

----------------------------------------------------------------------------
\* The flow body of run_registration_flow (src/outlook/register.py lines
\* 329-552): the steps of one run on the sign-up pages.  What the pages show
\* and what the person in front of the browser does are inputs of the steps.

\* range(3), line 100
DROPDOWN_ATTEMPTS == 3

\* the substrings tested by the wait_for_url predicate (line 545):
\* "outlook.live.com", "kmsi", "SummaryPage"
NEEDLES ==
    <<
       <<111, 117, 116, 108, 111, 111, 107, 46, 108, 105, 118, 101, 46, 99,
         111, 109>>,
       <<107, 109, 115, 105>>,
       <<83, 117, 109, 109, 97, 114, 121, 80, 97, 103, 101>>
    >>

\* URLs the page can show while the flow waits for completion:
\*   inbox: "https://outlook.live.com/mail/0/"
\*   kmsi: "https://login.live.com/ppsecure/post.srf?kmsi=1"
\*   summary: "https://account.live.com/SummaryPage.aspx"
\*   signup: "https://signup.live.com/signup"
\*   lowercase: "https://account.live.com/summarypage.aspx"
PAGE_URL ==
    [
     inbox |->
       <<104, 116, 116, 112, 115, 58, 47, 47, 111, 117, 116, 108, 111, 111,
         107, 46, 108, 105, 118, 101, 46, 99, 111, 109, 47, 109, 97, 105,
         108, 47, 48, 47>>,
     kmsi |->
       <<104, 116, 116, 112, 115, 58, 47, 47, 108, 111, 103, 105, 110, 46,
         108, 105, 118, 101, 46, 99, 111, 109, 47, 112, 112, 115, 101, 99,
         117, 114, 101, 47, 112, 111, 115, 116, 46, 115, 114, 102, 63, 107,
         109, 115, 105, 61, 49>>,
     summary |->
       <<104, 116, 116, 112, 115, 58, 47, 47, 97, 99, 99, 111, 117, 110,
         116, 46, 108, 105, 118, 101, 46, 99, 111, 109, 47, 83, 117, 109,
         109, 97, 114, 121, 80, 97, 103, 101, 46, 97, 115, 112, 120>>,
     signup |->
       <<104, 116, 116, 112, 115, 58, 47, 47, 115, 105, 103, 110, 117, 112,
         46, 108, 105, 118, 101, 46, 99, 111, 109, 47, 115, 105, 103, 110,
         117, 112>>,
     lowercase |->
       <<104, 116, 116, 112, 115, 58, 47, 47, 97, 99, 99, 111, 117, 110,
         116, 46, 108, 105, 118, 101, 46, 99, 111, 109, 47, 115, 117, 109,
         109, 97, 114, 121, 112, 97, 103, 101, 46, 97, 115, 112, 120>>
    ]
PageUrls == {PAGE_URL[k] : k \in DOMAIN PAGE_URL}

\* the lambda of wait_for_url (line 545)
UrlDone(u) == \E n \in 1..Len(NEEDLES) : Contains(u, NEEDLES[n])

BirthFields == {"month", "day"}
fieldVars == <<field, attempt, sel_ok, has_value, chosen_by>>

\* the messages of the return statements (lines 341, 380, 356 without the
\* Chinese button label it quotes, 382, 418, 420, 494, 516, 538, 546, 548)
FLOW_MSG ==
    [human |->
       "Human verification detected. Please complete it in the browser and try again.",
     captcha |->
       "Human verification detected. Please complete the CAPTCHA in the opened browser window and try again.",
     pipl |->
       "PIPL consent required. Please click the button in the opened browser window.",
     no_email_input |->
       "Email input not found. The sign-up flow may have changed or is blocked.",
     email_taken |-> "Email already taken.",
     username_taken |-> "Username already taken.",
     month |->
       "Birth month selection failed. Please select month/day manually in the browser and try again.",
     day |->
       "Birth day selection failed. Please select month/day manually in the browser and try again.",
     blocked |-> "Account creation blocked by security.",
     registered |-> "Registration successful!",
     timed_out |-> "Timed out waiting for completion."]

\* one step of the flow, as recorded in ftrace: f is the birth-date field the
\* step belongs to ("-" for the other steps)
Ev(f, e) == [f |-> f, e |-> e]

\* return success, message, account
FReturn(success, msg, evs) ==
    /\ fresult' = Some([success |-> success, message |-> msg])
    /\ fpc' = "returned"
    /\ ftrace' = ftrace \o evs
\* lines 550-552: an exception of a step is caught, save_debug_info is
\* called and the flow-error result is returned
FRaise(evs) ==
    FReturn(FALSE, "Flow error: Timeout exceeded",
            evs \o <<Ev("-", "raised"), Ev("-", "save_debug_info")>>)
\* the flow goes on with the next step
FStep(next, evs) ==
    /\ fpc' = next
    /\ ftrace' = ftrace \o evs
    /\ UNCHANGED fresult

\* lines 330-333: goto, wait_for_load_state, random_mouse_noise
Flow_Goto(ok) ==
    /\ fpc = "goto"
    /\ IF ok THEN FStep("gate1", <<Ev("-", "goto")>>) ELSE FRaise(<<>>)
    /\ UNCHANGED <<fieldVars, final_url>>
    /\ UNCHANGED <<verVars, regVars, mailVars, urlVars, moreVars>>

\* the step that follows each settle_interstitials / human-verification
\* check (lines 335-341, 345-351, 434-440, 451-457, 521-531)
AfterGate ==
    [gate1 |-> "gate2", gate2 |-> "email", gate3 |-> "name",
     gate4 |-> "year", gate5 |-> "block"]

\* settle_interstitials (the consent check) always answers ok (line 237);
\* the human check follows: it passes when no iframe is there or when
\* wait_for_human_verification sees it go, and the run stops here only when
\* that wait gives up (lines 181-197), after save_debug_info.  ftrace
\* records the checks that were made.
Flow_Gate(o) ==
    /\ fpc \in DOMAIN AfterGate
    /\ CASE o = "passed" ->
              FStep(AfterGate[fpc], <<Ev("-", "consent_check"),
                                     Ev("-", "human_check")>>)
         [] o = "human_timeout" ->
              FReturn(FALSE, FLOW_MSG.human,
                      <<Ev("-", "consent_check"), Ev("-", "human_check"),
                        Ev("-", "human_check_timeout"),
                        Ev("-", "save_debug_info")>>)
         [] OTHER -> FRaise(<<Ev("-", "consent_check")>>)
    /\ UNCHANGED <<fieldVars, final_url>>
    /\ UNCHANGED <<verVars, regVars, mailVars, urlVars, moreVars>>

\* lines 353-397: PIPL form, sign-up links, email input, Next
Flow_Email(o) ==
    /\ fpc = "email"
    /\ CASE o = "typed" -> FStep("validation", <<Ev("-", "email_typed")>>)
         [] o = "pipl" ->
              FReturn(FALSE, FLOW_MSG.pipl,
                      <<Ev("-", "pipl_form"), Ev("-", "save_debug_info")>>)
         [] o = "human_check" ->
              FReturn(FALSE, FLOW_MSG.captcha,
                      <<Ev("-", "captcha"), Ev("-", "save_debug_info")>>)
         [] o = "no_input" ->
              FReturn(FALSE, FLOW_MSG.no_email_input,
                      <<Ev("-", "no_email_input"),
                        Ev("-", "save_debug_info")>>)
         [] OTHER -> FRaise(<<>>)
    /\ UNCHANGED <<fieldVars, final_url>>
    /\ UNCHANGED <<verVars, regVars, mailVars, urlVars, moreVars>>

\* what the validation element shows after the first Next (lines 401-406):
\* nothing (no element, an empty text, a text that cannot be read), a text
\* with one of the needles of line 408 (invalid), of line 419 (taken), of
\* both, or of neither (other)
ValidationMessages == {"none", "other", "invalid", "taken", "invalid_taken"}
\* what it shows after the second Next (lines 415-417); "raised" is an
\* exception of the retry
Followups == {"none", "other", "taken", "raised"}
\* line 408 is tested before line 419
AsksForAddress(m) == m \in {"invalid", "invalid_taken"}

\* the variant of Flow_Validation that goes on without the retry
Flow_ValidationNoRetry(m, f) ==
    /\ fpc = "validation"
    /\ IF m = "taken"
       THEN FReturn(FALSE, FLOW_MSG.username_taken, <<Ev("-", m)>>)
       ELSE FStep("password", <<Ev("-", m), Ev("-", "consent_check")>>)
    /\ UNCHANGED <<fieldVars, final_url>>
    /\ UNCHANGED <<verVars, regVars, mailVars, urlVars, moreVars>>
\* lines 399-424: the validation message, one retry with the full address
\* when it asks for an address, an immediate failure when it only reports
\* the name as taken, then settle_interstitials alone (lines 422-424)
Flow_Validation(m, f) ==
    /\ fpc = "validation"
    /\ CASE m \in {"none", "other"} ->
              FStep("password", <<Ev("-", m), Ev("-", "consent_check")>>)
         [] m = "taken" ->
              FReturn(FALSE, FLOW_MSG.username_taken, <<Ev("-", m)>>)
         [] AsksForAddress(m) /\ f = "taken" ->
              FReturn(FALSE, FLOW_MSG.email_taken,
                      <<Ev("-", m), Ev("-", "email_retyped"),
                        Ev("-", "followup_taken")>>)
         [] AsksForAddress(m) /\ f = "raised" ->
              FRaise(<<Ev("-", m), Ev("-", "email_retyped")>>)
         [] AsksForAddress(m) /\ f \in {"none", "other"} ->
              FStep("password",
                    <<Ev("-", m), Ev("-", "email_retyped"),
                      Ev("-", IF f = "none" THEN "followup_none"
                              ELSE "followup_other"),
                      Ev("-", "consent_check")>>)
         [] OTHER -> FRaise(<<>>)
    /\ UNCHANGED <<fieldVars, final_url>>
    /\ UNCHANGED <<verVars, regVars, mailVars, urlVars, moreVars>>

\* lines 426-432
Flow_Password(ok) ==
    /\ fpc = "password"
    /\ IF ok THEN FStep("gate3", <<Ev("-", "password_typed")>>)
       ELSE FRaise(<<>>)
    /\ UNCHANGED <<fieldVars, final_url>>
    /\ UNCHANGED <<verVars, regVars, mailVars, urlVars, moreVars>>

\* lines 442-449
Flow_Name(ok) ==
    /\ fpc = "name"
    /\ IF ok THEN FStep("gate4", <<Ev("-", "name_typed")>>)
       ELSE FRaise(<<>>)
    /\ UNCHANGED <<fieldVars, final_url>>
    /\ UNCHANGED <<verVars, regVars, mailVars, urlVars, moreVars>>

\* lines 459-473: birth year, then the month is the first field
Flow_Year(ok) ==
    /\ fpc = "year"
    /\ IF ok THEN FStep("field", <<Ev("-", "year_typed")>>)
       ELSE FRaise(<<>>)
    /\ field' = "month"
    /\ UNCHANGED <<attempt, sel_ok, has_value, chosen_by, final_url>>
    /\ UNCHANGED <<verVars, regVars, mailVars, urlVars, moreVars>>

\* the field has its value: the day follows the month (line 496), the Next
\* button follows the day (line 518)
FieldDone(by, evs) ==
    /\ chosen_by' = [chosen_by EXCEPT ![field] = by]
    /\ has_value' = None
    /\ IF field = "month"
       THEN /\ field' = "day"
            /\ FStep("field", evs)
       ELSE /\ UNCHANGED field
            /\ FStep("next", evs)

\* lines 474-478 and 496-500: a native select is filled by select_option,
\* otherwise select_dropdown_option is called
Field_ChooseBoth(native, ok) ==
    /\ fpc = "field"
    /\ IF native /\ ~ok
       THEN FRaise(<<Ev(field, "native")>>)
       ELSE FStep("dd_button",
                  <<Ev(field, IF native THEN "native" ELSE "no_native")>>)
    /\ UNCHANGED <<field, chosen_by, has_value>>
    /\ UNCHANGED <<attempt, sel_ok, final_url>>
    /\ UNCHANGED <<verVars, regVars, mailVars, urlVars, moreVars>>
Field_Choose(native, ok) ==
    /\ fpc = "field"
    /\ IF native
       THEN IF ok
            THEN FieldDone("native", <<Ev(field, "native")>>)
            ELSE /\ FRaise(<<Ev(field, "native")>>)
                 /\ UNCHANGED <<field, chosen_by, has_value>>
       ELSE /\ FStep("dd_button", <<Ev(field, "no_native")>>)
            /\ UNCHANGED <<field, chosen_by, has_value>>
    /\ UNCHANGED <<attempt, sel_ok, final_url>>
    /\ UNCHANGED <<verVars, regVars, mailVars, urlVars, moreVars>>

\* lines 73-75: select_dropdown_option gives up when the button is missing
Dd_Button(o) ==
    /\ fpc = "dd_button"
    /\ CASE o = "present" ->
              /\ FStep("dd_attempt", <<Ev(field, "button")>>)
              /\ attempt' = 0
              /\ UNCHANGED sel_ok
         [] o = "absent" ->
              /\ FStep("dd_check", <<Ev(field, "no_button")>>)
              /\ sel_ok' = FALSE
              /\ UNCHANGED attempt
         [] OTHER ->
              /\ FRaise(<<>>)
              /\ UNCHANGED <<attempt, sel_ok>>
    /\ UNCHANGED <<field, has_value, chosen_by, final_url>>
    /\ UNCHANGED <<verVars, regVars, mailVars, urlVars, moreVars>>

\* what select_dropdown_option returns from one pass of its loop
DdReturn(value, evs) ==
    /\ sel_ok' = value
    /\ FStep("dd_check", evs)
    /\ UNCHANGED attempt

\* lines 100-146: one pass of  for attempt in range(3)
Dd_Attempt(o) ==
    /\ fpc = "dd_attempt"
    /\ attempt < DROPDOWN_ATTEMPTS
    /\ CASE o = "open_failed" ->
              \* lines 101-102
              DdReturn(FALSE, <<Ev(field, "open_failed")>>)
         [] o = "too_many" ->
              \* lines 111-113, and line 148 after the last pass
              /\ attempt' = attempt + 1
              /\ IF attempt + 1 = DROPDOWN_ATTEMPTS
                 THEN /\ sel_ok' = FALSE
                      /\ FStep("dd_check", <<Ev(field, "opened"),
                                             Ev(field, "too_many_options")>>)
                 ELSE /\ UNCHANGED sel_ok
                      /\ FStep("dd_attempt", <<Ev(field, "opened"),
                                               Ev(field, "too_many_options")>>)
         [] o = "label_clicked" ->
              \* lines 115-128
              DdReturn(TRUE, <<Ev(field, "opened"), Ev(field, "label_match"),
                               Ev(field, "label_clicked")>>)
         [] o = "label_click_failed" ->
              \* lines 129-130
              DdReturn(FALSE, <<Ev(field, "opened"), Ev(field, "label_match"),
                                Ev(field, "label_click_failed")>>)
         [] o = "positional_ok" ->
              \* lines 132-142: no text matched an option
              DdReturn(TRUE, <<Ev(field, "opened"),
                               Ev(field, "no_label_match"),
                               Ev(field, "positional")>>)
         [] o = "positional_failed" ->
              \* lines 143-144
              DdReturn(FALSE, <<Ev(field, "opened"),
                                Ev(field, "no_label_match"),
                                Ev(field, "positional"),
                                Ev(field, "positional_failed")>>)
         [] OTHER ->
              /\ FRaise(<<Ev(field, "opened")>>)
              /\ UNCHANGED <<attempt, sel_ok>>
    /\ UNCHANGED <<field, has_value, chosen_by, final_url>>
    /\ UNCHANGED <<verVars, regVars, mailVars, urlVars, moreVars>>

\* the path whose value the flow accepted
AcceptedPath ==
    IF ftrace[Len(ftrace)].e = "label_clicked" THEN "label" ELSE "positional"

\* lines 485-492 and 507-514: the result of select_dropdown_option and of
\* combobox_has_value decide whether the flow waits for manual input
Dd_CheckNoWait(hv) ==
    /\ fpc = "dd_check"
    /\ IF sel_ok /\ hv
       THEN FieldDone(AcceptedPath, <<Ev(field, "has_value")>>)
       ELSE /\ FReturn(FALSE, FLOW_MSG[field],
                       <<Ev(field, "no_value")>>)
            /\ UNCHANGED <<field, chosen_by, has_value>>
    /\ UNCHANGED <<attempt, sel_ok, final_url>>
    /\ UNCHANGED <<verVars, regVars, mailVars, urlVars, moreVars>>
Dd_Check(hv) ==
    /\ fpc = "dd_check"
    /\ IF sel_ok /\ hv
       THEN FieldDone(AcceptedPath, <<Ev(field, "has_value")>>)
       ELSE /\ has_value' = IF sel_ok THEN Some(hv) ELSE None
            /\ FStep("manual", <<Ev("-", "save_debug_info"),
                                 Ev(field, "manual_wait")>>)
            /\ UNCHANGED <<field, chosen_by>>
    /\ UNCHANGED <<attempt, sel_ok, final_url>>
    /\ UNCHANGED <<verVars, regVars, mailVars, urlVars, moreVars>>

\* lines 488-494 and 510-516: wait_for_function with timeout=300000
Field_Manual(filled) ==
    /\ fpc = "manual"
    /\ IF filled
       THEN FieldDone("manual", <<Ev(field, "manual_filled")>>)
       ELSE /\ FReturn(FALSE, FLOW_MSG[field],
                       <<Ev(field, "wait_timeout")>>)
            /\ UNCHANGED <<field, chosen_by, has_value>>
    /\ UNCHANGED <<attempt, sel_ok, final_url>>
    /\ UNCHANGED <<verVars, regVars, mailVars, urlVars, moreVars>>

\* lines 518-519: click_next swallows its exceptions
Flow_Next ==
    /\ fpc = "next"
    /\ FStep("gate5", <<Ev("-", "next")>>)
    /\ UNCHANGED <<fieldVars, final_url>>
    /\ UNCHANGED <<verVars, regVars, mailVars, urlVars, moreVars>>

\* the variant of Flow_Block that notes the marker and lets the flow go on
Flow_BlockIgnored(o) ==
    /\ fpc = "block"
    /\ CASE o = "clean" -> FStep("save", <<Ev("-", "block_check_passed")>>)
         [] o = "blocked" ->
              FStep("save", <<Ev("-", "blocked"), Ev("-", "save_debug_info")>>)
         [] OTHER -> FRaise(<<>>)
    /\ UNCHANGED <<fieldVars, final_url>>
    /\ UNCHANGED <<verVars, regVars, mailVars, urlVars, moreVars>>
\* lines 533-538: the block check; a marker ends the run after
\* save_debug_info
Flow_Block(o) ==
    /\ fpc = "block"
    /\ CASE o = "clean" -> FStep("save", <<Ev("-", "block_check_passed")>>)
         [] o = "blocked" ->
              FReturn(FALSE, FLOW_MSG.blocked,
                      <<Ev("-", "blocked"), Ev("-", "save_debug_info")>>)
         [] OTHER -> FRaise(<<>>)
    /\ UNCHANGED <<fieldVars, final_url>>
    /\ UNCHANGED <<verVars, regVars, mailVars, urlVars, moreVars>>

\* the variant of Flow_Save that saves only what can be saved
Flow_SaveIfPossible(ok) ==
    /\ fpc = "save"
    /\ FStep("final", IF ok THEN <<Ev("-", "saved")>> ELSE <<>>)
    /\ UNCHANGED <<fieldVars, final_url>>
    /\ UNCHANGED <<verVars, regVars, mailVars, urlVars, moreVars>>
\* line 540: save_to_excel(account); its own failure is only logged
Flow_Save(ok) ==
    /\ fpc = "save"
    /\ FStep("final", <<Ev("-", IF ok THEN "saved" ELSE "save_failed")>>)
    /\ UNCHANGED <<fieldVars, final_url>>
    /\ UNCHANGED <<verVars, regVars, mailVars, urlVars, moreVars>>

\* lines 543-548: wait_for_url returns when the page shows a URL that
\* satisfies the predicate and raises otherwise; u is the URL the page shows
\* when the wait is over
Flow_FinalLenient(u) ==
    /\ fpc = "final"
    /\ final_url' = Some(u)
    /\ FReturn(TRUE, FLOW_MSG.registered, <<Ev("-", "redirected")>>)
    /\ UNCHANGED fieldVars
    /\ UNCHANGED <<verVars, regVars, mailVars, urlVars, moreVars>>
\* the variant of Flow_Final whose wait has no timeout: the wait goes on
\* while the page shows other URLs
Flow_FinalUnbounded(u) ==
    /\ fpc = "final"
    /\ final_url' = Some(u)
    /\ IF UrlDone(u)
       THEN FReturn(TRUE, FLOW_MSG.registered, <<Ev("-", "redirected")>>)
       ELSE UNCHANGED <<fpc, ftrace, fresult>>
    /\ UNCHANGED fieldVars
    /\ UNCHANGED <<verVars, regVars, mailVars, urlVars, moreVars>>
Flow_Final(u) ==
    /\ fpc = "final"
    /\ final_url' = Some(u)
    /\ IF UrlDone(u)
       THEN FReturn(TRUE, FLOW_MSG.registered, <<Ev("-", "redirected")>>)
       ELSE FReturn(FALSE, FLOW_MSG.timed_out, <<Ev("-", "wait_timeout")>>)
    /\ UNCHANGED fieldVars
    /\ UNCHANGED <<verVars, regVars, mailVars, urlVars, moreVars>>

FlowInit ==
    /\ fpc = "goto"
    /\ field = "month"
    /\ attempt = 0
    /\ sel_ok = FALSE
    /\ has_value = None
    /\ chosen_by = [f \in BirthFields |-> "none"]
    /\ ftrace = <<>>
    /\ fresult = None
    /\ final_url = None

----------------------------------------------------------------------------
\* TempEmailService._extract_verification_url (src/utils/temp_email.py lines
\* 224-262).  A text is a sequence of tokens; a token is a piece of text that
\* the patterns treat as a unit ("x" is any other run of URL characters).
\* Tokens are compared as written here, which is what re.IGNORECASE makes of
\* their spellings in any letter case.

\* the characters excluded by the class [^\s"'<>]
Delimiters == {" ", "\"", "'", "<", ">"}
\* https?://
Schemes == {"https://", "http://"}

\* The four patterns (lines 241-250).  Each is  https?://  URL characters
\* sheerid.com  and then: URL characters and the key (adjacent FALSE) or the
\* key at once (adjacent TRUE), followed by any URL characters (tail FALSE)
\* or by at least one (tail TRUE).
PATTERNS_GenericFirst ==
    <<[key |-> "/", adjacent |-> TRUE, tail |-> TRUE],
      [key |-> "verify", adjacent |-> FALSE, tail |-> FALSE],
      [key |-> "token=", adjacent |-> FALSE, tail |-> TRUE],
      [key |-> "confirm", adjacent |-> FALSE, tail |-> FALSE]>>
PATTERNS ==
    <<[key |-> "verify", adjacent |-> FALSE, tail |-> FALSE],
      [key |-> "token=", adjacent |-> FALSE, tail |-> TRUE],
      [key |-> "confirm", adjacent |-> FALSE, tail |-> FALSE],
      [key |-> "/", adjacent |-> TRUE, tail |-> TRUE]>>

\* index of the last token of the run of URL characters that holds token i
RECURSIVE RunEnd(_, _)
RunEnd(text, i) ==
    IF i < Len(text) /\ text[i + 1] \notin Delimiters
    THEN RunEnd(text, i + 1)
    ELSE i

\* the pattern matches at token i; the greedy last part of every pattern
\* takes the match to the end of the run
MatchesAt(text, i, p) ==
    /\ text[i] \in Schemes
    /\ LET e == RunEnd(text, i)
       IN  \E j \in (i + 1)..e :
              /\ text[j] = "sheerid.com"
              /\ \E k \in (j + 1)..e :
                    /\ text[k] = p.key
                    /\ p.adjacent => k = j + 1
                    /\ p.tail => k < e

\* re.findall(pattern, content)[0]: the leftmost match, None without a match
RECURSIVE FirstMatch(_, _, _)
FirstMatch(text, p, i) ==
    IF i > Len(text) THEN None
    ELSE IF MatchesAt(text, i, p)
    THEN Some(SubSeq(text, i, RunEnd(text, i)))
    ELSE FirstMatch(text, p, i + 1)

\* matches[0].replace("&amp;", "&")  (line 256)
ReplaceAmp(u) == [i \in 1..Len(u) |-> IF u[i] = "&amp;" THEN "&" ELSE u[i]]

\* re.sub(r'["\'>].*$', '', url)  (line 258)
StripTail(u) ==
    LET cut == {i \in 1..Len(u) : u[i] \in {"\"", "'", ">"}}
    IN  IF cut = {} THEN u
        ELSE SubSeq(u, 1, (CHOOSE i \in cut : \A m \in cut : i <= m) - 1)

\* content = html_content + text_content  (lines 235-238)
Content(msg) == GetOr(msg.html, <<>>) \o GetOr(msg.text, <<>>)

\* lines 252-259: the patterns in their order, the first match of the first
\* pattern that has one
RECURSIVE TryPatterns(_, _)
TryPatterns(text, k) ==
    IF k > Len(PATTERNS) THEN None
    ELSE LET m == FirstMatch(text, PATTERNS[k], 1)
         IN  IF m # None
             THEN Some(StripTail(ReplaceAmp(m[1])))
             ELSE TryPatterns(text, k + 1)

extract_consuming(msg) ==
    IF extracted = <<>> THEN TryPatterns(Content(msg), 1) ELSE None
extract_verification_url(msg) == TryPatterns(Content(msg), 1)

\* pieces of text a message can hold
WORD ==
    [verify |-> <<"https://", "x", "sheerid.com", "/", "verify", "/", "x">>,
     verify_amp |-> <<"https://", "sheerid.com", "/", "verify", "x", "&amp;",
                      "token=", "x">>,
     token |-> <<"https://", "sheerid.com", "/", "x", "token=", "x">>,
     token_empty |-> <<"https://", "sheerid.com", "/", "x", "token=">>,
     confirm |-> <<"https://", "sheerid.com", "/", "confirm">>,
     generic |-> <<"https://", "x", "sheerid.com", "/", "x">>,
     bare |-> <<"https://", "sheerid.com", "/">>,
     verify_host |-> <<"https://", "verify", "sheerid.com", "/", "x">>,
     other |-> <<"https://", "x", "/", "verify">>,
     plain |-> <<"x">>]
Words == {WORD[k] : k \in DOMAIN WORD}

\* the words of an HTML part stand in quoted attributes:  w" "w" "w
RECURSIVE JoinWords(_)
JoinWords(ws) ==
    IF Len(ws) = 0 THEN <<>>
    ELSE IF Len(ws) = 1 THEN ws[1]
    ELSE ws[1] \o <<"\"", " ", "\"">> \o JoinWords(Tail(ws))

\* message.get("html"), message.get("text"): a missing part, or up to
\* MaxWords words of HTML and one word of text
Messages ==
    [html : {None} \cup {Some(JoinWords(ws)) :
                            ws \in UNION {[1..n -> Words] : n \in 0..MaxWords}},
     text : {None} \cup {Some(w) : w \in Words}]

\* self.email, self.token, self.account_id before and after create_account
Clients ==
    {[email |-> None, token |-> None, account_id |-> None],
     [email |-> Some("box"), token |-> Some("jwt"), account_id |-> Some("id")]}

\* one call of _extract_verification_url on the message
Extract ==
    /\ Len(extracted) < MaxCalls
    /\ extracted' = Append(extracted, extract_verification_url(mail_message))
    /\ UNCHANGED <<client, mail_message>>
    /\ UNCHANGED <<verVars, regVars, flowVars, urlVars, moreVars>>

MailIdle ==
    /\ client = [email |-> None, token |-> None, account_id |-> None]
    /\ mail_message = [html |-> None, text |-> None]
    /\ extracted = <<>>

MailInit ==
    /\ client \in Clients
    /\ mail_message \in Messages
    /\ extracted = <<>>

----------------------------------------------------------------------------
\* SheerIDVerifier.parse_verification_id (src/military/sheerid_verifier.py
\* lines 119-125):  re.search(r"verificationId=([a-f0-9]+)", url,
\* re.IGNORECASE).  A url is a sequence of tokens: the key in two spellings,
\* hexadecimal digits in both cases, a letter that is no digit, a separator.

UrlTokens == {"verificationId=", "VERIFICATIONID=", "a", "F", "7", "g", "&"}

\* verificationId= under re.IGNORECASE
IsKeyExact(t) == t = "verificationId="
IsKey(t) == t \in {"verificationId=", "VERIFICATIONID="}

\* [a-f0-9] under re.IGNORECASE
IsHex(t) == t \in {"a", "F", "7"}

\* index of the last token of the run of digits that starts at i
RECURSIVE HexEnd(_, _)
HexEnd(u, i) ==
    IF i < Len(u) /\ IsHex(u[i + 1]) THEN HexEnd(u, i + 1) ELSE i

\* re.search: the leftmost place where the key is followed by a digit;
\* group(1) is the greedy run of digits
RECURSIVE SearchId(_, _)
SearchId(u, i) ==
    IF i >= Len(u) THEN None
    ELSE IF IsKey(u[i]) /\ IsHex(u[i + 1])
    THEN Some(SubSeq(u, i + 1, HexEnd(u, i + 1)))
    ELSE SearchId(u, i + 1)

parse_verification_id(u) == SearchId(u, 1)

Urls == UNION {[1..n -> UrlTokens] : n \in 0..MaxUrlLen}

\* one call of parse_verification_id on the url
Parse ==
    /\ Len(parsed) < MaxCalls
    /\ parsed' = Append(parsed, parse_verification_id(id_url))
    /\ UNCHANGED id_url
    /\ UNCHANGED <<verVars, regVars, flowVars, mailVars, moreVars>>

UrlIdle ==
    /\ id_url = <<>>
    /\ parsed = <<>>

UrlInit ==
    /\ id_url \in Urls
    /\ parsed = <<>>

----------------------------------------------------------------------------
\* TempEmailService.wait_for_sheerid_email (src/utils/temp_email.py lines
\* 178-222) with get_messages (lines 136-157) and get_message_content (lines
\* 159-176).  The mailbox provider is the environment: each poll lists an
\* inbox drawn from a bounded set.

\* A message of the inbox.  from_address is what
\* msg.get("from", {}).get("address", "").lower() meets: an address with
\* "sheerid" in it, an address without, or a JSON null (None has no lower());
\* subject is a subject with "verify" in it or without; content is what
\* get_message_content and _extract_verification_url give for the message:
\* no content, a content without a link, or the link extracted.
InboxMessages ==
    [from_address : {"sheerid", "other", "null"},
     subject : {"verify", "other"},
     content : {"unavailable", "no_link", "L1", "L2"}]
\* what get_messages returns: the list of the provider, [] on any failure
Inboxes == UNION {[1..n -> InboxMessages] : n \in 0..MaxInbox}

\* the variant of IsSheeridMail that takes every message
IsAnyMail(msg) == TRUE
\* line 204
IsSheeridMail(msg) == msg.from_address = "sheerid" \/ msg.subject = "verify"

\* lines 199-214: the for loop over the messages of one poll
RECURSIVE ScanInbox(_)
ScanInbox(messages) ==
    IF messages = <<>> THEN [kind |-> "none", url |-> None]
    ELSE LET msg == Head(messages)
         IN  IF msg.from_address = "null"
             THEN [kind |-> "raised", url |-> None]
             ELSE IF IsSheeridMail(msg)
                     /\ msg.content \notin {"unavailable", "no_link"}
             THEN [kind |-> "url", url |-> Some(msg.content)]
             ELSE ScanInbox(Tail(messages))

\* lines 196-219: one round of the while loop
Wait_Poll(messages) ==
    /\ wpc = "loop"
    /\ wclock < MAX_WAIT
    /\ wpolls' = wpolls + 1
    /\ LET found == ScanInbox(messages)
       IN  CASE found.kind = "url" ->
                  /\ wpc' = "returned"
                  /\ wurl' = found.url
                  /\ winbox' = messages
                  /\ UNCHANGED wclock
             [] found.kind = "raised" ->
                  /\ wpc' = "raised"
                  /\ winbox' = messages
                  /\ UNCHANGED <<wclock, wurl>>
             [] OTHER ->
                  \* line 219: time.sleep(poll_interval)
                  /\ wclock' = wclock + POLL_INTERVAL
                  /\ UNCHANGED <<wpc, winbox, wurl>>
    /\ UNCHANGED waitRest

\* lines 196, 221-222: the loop condition fails, return None
Wait_Timeout ==
    /\ wpc = "loop"
    /\ ~(wclock < MAX_WAIT)
    /\ wpc' = "returned"
    /\ wurl' = None
    /\ UNCHANGED <<wclock, wpolls, winbox>>
    /\ UNCHANGED waitRest

WaitIdle ==
    /\ wpc = "idle"
    /\ wclock = 0
    /\ wpolls = 0
    /\ winbox = <<>>
    /\ wurl = None
\* line 193: start_time = time.time()
WaitInit ==
    /\ wpc = "loop"
    /\ wclock = 0
    /\ wpolls = 0
    /\ winbox = <<>>
    /\ wurl = None

----------------------------------------------------------------------------
\* wait_for_human_verification (src/outlook/register.py lines 181-197) and
\* the gates of run_registration_flow around it.  The page and the person in
\* front of the browser are the environment: the overlay comes and goes at
\* any time.

\* timeout_ms=600000 (line 181) and wait_for_timeout(2000) (line 196)
HUMAN_TIMEOUT_MS == 600000
HUMAN_POLL_MS == 2000

Overlays == {"absent", "hidden", "visible"}

\* the flow leaves the gate for the next primary step
Proceed ==
    /\ hpc' = "proceeded"
    /\ hseen' = Some(overlay)
\* wait_for_human_verification returns value
HumanReturn(value) ==
    /\ hpc' = "returned"
    /\ hresult' = Some(value)

\* lines 338, 348, 437, 454, 528: the test for the iframe that follows
\* settle_interstitials; lines 422-429: after the email step the flow goes
\* on to the password step without the test (settle_interstitials looks for
\* the iframe only when a consent button is on the page, lines 208-213)
Human_Gate ==
    /\ hpc = "gate"
    /\ IF hgate = "after_email" \/ overlay = "absent"
       THEN Proceed
       ELSE hpc' = "entry" /\ UNCHANGED hseen
    /\ UNCHANGED <<hgate, overlay, hclock, hresult>>
    /\ UNCHANGED humanRest

\* lines 183-187
Human_Entry ==
    /\ hpc = "entry"
    /\ IF overlay = "absent"
       THEN HumanReturn(TRUE) /\ UNCHANGED hclock
       ELSE hpc' = "loop" /\ hclock' = 0 /\ UNCHANGED hresult
    /\ UNCHANGED <<hgate, overlay, hseen>>
    /\ UNCHANGED humanRest

\* lines 188-196: one round of the while loop; raised is an exception of
\* count() or is_visible()
Human_Sample(raised) ==
    /\ hpc = "loop"
    /\ hclock < HUMAN_TIMEOUT_MS
    /\ IF raised \/ overlay = "absent" \/ overlay = "hidden"
       THEN HumanReturn(TRUE) /\ UNCHANGED hclock
       ELSE /\ hclock' = hclock + HUMAN_POLL_MS
            /\ UNCHANGED <<hpc, hresult>>
    /\ UNCHANGED <<hgate, overlay, hseen>>
    /\ UNCHANGED humanRest

\* lines 188, 197
Human_GiveUp ==
    /\ hpc = "loop"
    /\ ~(hclock < HUMAN_TIMEOUT_MS)
    /\ HumanReturn(FALSE)
    /\ UNCHANGED <<hgate, overlay, hclock, hseen>>
    /\ UNCHANGED humanRest

\* lines 339-341 (and 349-351, 438-440, 455-457, 529-531)
Human_Flow ==
    /\ hpc = "returned"
    /\ IF hresult = Some(TRUE)
       THEN Proceed
       ELSE hpc' = "failed" /\ hseen' = Some(overlay)
    /\ UNCHANGED <<hgate, overlay, hclock, hresult>>
    /\ UNCHANGED humanRest

\* the page shows or hides the overlay, the person completes the challenge
Overlay_Change(o) ==
    /\ hpc \in {"gate", "entry", "loop", "returned"}
    /\ o # overlay
    /\ overlay' = o
    /\ UNCHANGED <<hpc, hgate, hclock, hresult, hseen>>
    /\ UNCHANGED humanRest

HumanIdle ==
    /\ hpc = "idle"
    /\ hgate = "checked"
    /\ overlay = "absent"
    /\ hclock = 0
    /\ hresult = None
    /\ hseen = None
HumanInit ==
    /\ hpc = "gate"
    /\ hgate \in {"checked", "after_email"}
    /\ overlay \in Overlays
    /\ hclock = 0
    /\ hresult = None
    /\ hseen = None

----------------------------------------------------------------------------
\* Database (src/database_sqlite.py).  Every method opens its own connection
\* and every statement is one operation of the database.

NumCallers == 2
MaxBalance == 2
Callers == 1..NumCallers

\* lines 321-323: get_user and the test of its row
Deduct_Read(p, amount) ==
    /\ dpc[p] = "call"
    /\ damt' = [damt EXCEPT ![p] = amount]
    /\ dread' = [dread EXCEPT ![p] = dbal]
    /\ IF dbal = None \/ dbal[1] < amount
       THEN /\ dpc' = [dpc EXCEPT ![p] = "done"]
            /\ dret' = [dret EXCEPT ![p] = Some(FALSE)]
       ELSE /\ dpc' = [dpc EXCEPT ![p] = "update"]
            /\ UNCHANGED dret
    /\ UNCHANGED dbal
    /\ UNCHANGED dedRest
\* lines 325-341: the UPDATE on a connection of its own; ok is FALSE when
\* the statement raises, which rolls back and returns False
Deduct_Update(p, ok) ==
    /\ dpc[p] = "update"
    /\ dpc' = [dpc EXCEPT ![p] = "done"]
    /\ IF ok
       THEN /\ dbal' = IF dbal = None THEN None ELSE Some(dbal[1] - damt[p])
            /\ dret' = [dret EXCEPT ![p] = Some(TRUE)]
       ELSE /\ dret' = [dret EXCEPT ![p] = Some(FALSE)]
            /\ UNCHANGED dbal
    /\ UNCHANGED <<damt, dread>>
    /\ UNCHANGED dedRest

DeductIdle ==
    /\ dbal = None
    /\ dpc = [p \in Callers |-> "done"]
    /\ damt = [p \in Callers |-> 0]
    /\ dread = [p \in Callers |-> None]
    /\ dret = [p \in Callers |-> None]
DeductInit ==
    /\ dbal \in {None} \cup {Some(b) : b \in 0..MaxBalance}
    /\ dpc = [p \in Callers |-> "call"]
    /\ damt = [p \in Callers |-> 0]
    /\ dread = [p \in Callers |-> None]
    /\ dret = [p \in Callers |-> None]

\* ---- use_card_key (lines 483-533), one key and the users that redeem it

MaxUses == 2
KeyUsers == {"u1", "u2", "u3"}
\* the rows that create_card_key writes (lines 441-481)
NewCards ==
    [balance : 1..MaxBalance, max_uses : 1..MaxUses, current_uses : {0},
     expire_at : {"none", "later"}]

\* lines 488-524: what the call returns and the tables it leaves; raised is
\* an exception of one of its statements, after which the transaction is
\* rolled back
use_card_key(card, usage, bal, u, raised) ==
    LET same(ret) == [ret |-> ret, card |-> card, usage |-> usage, bal |-> bal]
    IN  IF raised THEN same(None)
        ELSE IF card = None THEN same(None)
        ELSE IF card[1].expire_at = "past" THEN same(Some(-2))
        ELSE IF card[1].current_uses >= card[1].max_uses THEN same(Some(-1))
        ELSE IF \E i \in 1..Len(usage) : usage[i] = u THEN same(Some(-3))
        ELSE [ret |-> Some(card[1].balance),
              card |-> Some([card[1] EXCEPT
                                !.current_uses = card[1].current_uses + 1]),
              usage |-> Append(usage, u),
              bal |-> IF bal[u] = None THEN bal
                      ELSE [bal EXCEPT ![u] = Some(bal[u][1] + card[1].balance)]]

Use_Card_Key(u, raised) ==
    /\ LET r == use_card_key(kcard, kusage, kbal, u, raised)
       IN  /\ kcard' = r.card
           /\ kusage' = r.usage
           /\ kbal' = r.bal
           /\ kcall' = Some([user |-> u, raised |-> raised, ret |-> r.ret,
                             changed |-> <<r.card, r.usage, r.bal>>
                                             # <<kcard, kusage, kbal>>,
                             before |-> kbal[u], after |-> r.bal[u]])
    /\ UNCHANGED keyRest

\* the time of expire_at passes (line 497)
Key_Expire ==
    /\ kcard # None
    /\ kcard[1].expire_at = "later"
    /\ kcard' = Some([kcard[1] EXCEPT !.expire_at = "past"])
    /\ UNCHANGED <<kusage, kbal, kcall>>
    /\ UNCHANGED keyRest

KeyIdle ==
    /\ kcard = None
    /\ kusage = <<>>
    /\ kbal = [u \in KeyUsers |-> None]
    /\ kcall = None
KeyInit ==
    /\ kcard \in {None} \cup {Some(c) : c \in NewCards}
    /\ kusage = <<>>
    /\ kbal \in [KeyUsers -> {None, Some(1)}]
    /\ kcall = None

\* ---- can_checkin (lines 343-355) and checkin (lines 357-384)

\* the parts of a day, the last time looked at, the checkins followed
DayLen == 3
MaxClock == 7
MaxCheckins == 3
\* the offsets of the zone of the server, in parts of a day
TzOffsets == {0 - 1, 0, 1}
DayOf(t) == t \div DayLen
\* datetime.now(): the local time
LocalNow == cnow + ctz

\* lines 345-355: both dates are local dates
can_checkin ==
    IF cbal = None THEN FALSE
    ELSE IF clast = None THEN TRUE
    ELSE DayOf(clast[1]) < DayOf(LocalNow)

\* lines 362-375: the WHERE clause; date(last_checkin) is the date written
\* in the local timestamp, date('now') is the date in UTC
CheckinRowMatches ==
    /\ cbal # None
    /\ clast = None \/ DayOf(clast[1]) < DayOf(cnow)

\* lines 357-384; raised is an exception of the statement
Checkin(raised) ==
    /\ Len(cwins) < MaxCheckins
    /\ IF ~raised /\ CheckinRowMatches
       THEN /\ cbal' = Some(cbal[1] + 1)
            /\ clast' = Some(LocalNow)
            /\ cwins' = Append(cwins, DayOf(LocalNow))
       ELSE UNCHANGED <<cbal, clast, cwins>>
    /\ ccall' = Some([can |-> can_checkin, raised |-> raised,
                      ret |-> ~raised /\ CheckinRowMatches])
    /\ UNCHANGED <<cnow, ctz>>
    /\ UNCHANGED chkRest

\* time passes
Clock_Tick ==
    /\ cnow < MaxClock
    /\ cnow' = cnow + 1
    /\ UNCHANGED <<ctz, cbal, clast, ccall, cwins>>
    /\ UNCHANGED chkRest

CheckinIdle ==
    /\ cnow = 0
    /\ ctz = 0
    /\ cbal = None
    /\ clast = None
    /\ ccall = None
    /\ cwins = <<>>
CheckinInit ==
    /\ cnow = DayLen
    /\ ctz \in TzOffsets
    /\ cbal \in {None, Some(1)}
    /\ clast = None
    /\ ccall = None
    /\ cwins = <<>>

DbIdle == DeductIdle /\ KeyIdle /\ CheckinIdle
MoreIdle == WaitIdle /\ HumanIdle /\ DbIdle

----------------------------------------------------------------------------
\* Specifications.

VerInit ==
    /\ pc = "idle"
    /\ use_temp_email \in BOOLEAN
    /\ temp_email_service = FALSE
    /\ email = ""
    /\ current_step = None
    /\ submission_url = None
    /\ step1_data = None
    /\ step2_data = None
    /\ final_step = None
    /\ final_data = None
    /\ verification_url = None
    /\ link_followed = None
    /\ elapsed = 0
    /\ log = <<>>
    /\ outcomes = <<>>
    /\ escaped = 0

RegInit ==
    /\ rpc = [t \in Tasks |-> "idle"]
    /\ locked = FALSE
    /\ waiters = <<>>
    /\ woken = None
    /\ browser = [t \in Tasks |-> "none"]
    /\ result = [t \in Tasks |-> NoResult]
    /\ notified = [t \in Tasks |-> "no"]
    /\ resumed = None

Init == VerInit /\ RegInit /\ FlowInit /\ MailIdle /\ UrlIdle /\ MoreIdle

\* One verifier object and the verify calls made on it.
Next ==
    \/ \E e \in BOOLEAN, o \in {None, Some("4073"), Some("bad")} :
          \E m \in (IF ~e /\ use_temp_email THEN MailboxResults ELSE {"ok"}) :
              Verify_Begin(e, o, m)
    \/ \E r \in Responses(Step1Payloads) : Verify_Step1(r)
    \/ \E r \in Responses(StepResultPayloads) : Verify_Step2(r)
    \/ \E r \in PollResults : Verify_Poll(r)
    \/ Verify_PollTimeout
    \/ \E r \in LinkResponses : Verify_Click(r)
    \/ \E r \in Responses(StepResultPayloads) : Verify_Recheck(r)

Spec == Init /\ [][Next]_vars

\* The steps of one background task, once it was triggered.
TaskStep(t) ==
    \/ Acquire(t)
    \/ Resume(t)
    \/ \E o \in {"ok", "launch_fails", "driver_fails"} : Run_Launch(t, o)
    \/ \E ok \in BOOLEAN : Run_Page(t, ok)
    \/ \E e \in FlowEnds : Run_Flow(t, e)
    \/ \E ok \in BOOLEAN : Run_Close(t, ok)
    \/ Run_Exit(t)
    \/ Notify(t)

RegNext ==
    \/ \E t \in Tasks : Trigger(t)
    \/ \E t \in Tasks : Acquire(t)
    \/ \E t \in Tasks : Resume(t)
    \/ \E t \in Tasks, o \in {"ok", "launch_fails", "driver_fails"} :
          Run_Launch(t, o)
    \/ \E t \in Tasks, ok \in BOOLEAN : Run_Page(t, ok)
    \/ \E t \in Tasks, e \in FlowEnds : Run_Flow(t, e)
    \/ \E t \in Tasks, ok \in BOOLEAN : Run_Close(t, ok)
    \/ \E t \in Tasks : Run_Exit(t)
    \/ \E t \in Tasks : Notify(t)

RegSpec == Init /\ [][RegNext]_vars

\* The interpreter keeps running a verify call: every request returns or
\* raises within the client's timeout, and the poll sleeps are finite.
FairSpec == Spec /\ WF_vars(Next)

\* The event loop runs every task that is ready: each step of a triggered
\* task that stays enabled is eventually taken.  Triggers are not forced.
RegFairSpec == RegSpec /\ \A t \in Tasks : WF_vars(TaskStep(t))

\* One run of the flow body.
FlowNext ==
    \/ \E ok \in BOOLEAN : Flow_Goto(ok)
    \/ \E o \in {"passed", "human_timeout", "raised"} : Flow_Gate(o)
    \/ \E o \in {"typed", "pipl", "human_check", "no_input", "raised"} :
          Flow_Email(o)
    \/ \E m \in ValidationMessages \cup {"raised"}, f \in Followups :
          Flow_Validation(m, f)
    \/ \E ok \in BOOLEAN : Flow_Password(ok)
    \/ \E ok \in BOOLEAN : Flow_Name(ok)
    \/ \E ok \in BOOLEAN : Flow_Year(ok)
    \/ \E native \in BOOLEAN, ok \in BOOLEAN : Field_Choose(native, ok)
    \/ \E o \in {"present", "absent", "raised"} : Dd_Button(o)
    \/ \E o \in {"open_failed", "too_many", "label_clicked",
                 "label_click_failed", "positional_ok", "positional_failed",
                 "raised"} : Dd_Attempt(o)
    \/ \E hv \in BOOLEAN : Dd_Check(hv)
    \/ \E filled \in BOOLEAN : Field_Manual(filled)
    \/ Flow_Next
    \/ \E o \in {"clean", "blocked", "raised"} : Flow_Block(o)
    \/ \E ok \in BOOLEAN : Flow_Save(ok)
    \/ \E u \in PageUrls : Flow_Final(u)

FlowSpecInit == Init /\ use_temp_email = TRUE
FlowSpec == FlowSpecInit /\ [][FlowNext]_vars

\* _extract_verification_url applied to every message of the bounded set.
ExtractInit ==
    /\ VerInit /\ use_temp_email = TRUE /\ RegInit /\ FlowInit
    /\ MailInit /\ UrlIdle /\ MoreIdle
ExtractSpec == ExtractInit /\ [][Extract]_vars

\* parse_verification_id applied to every url of the bounded set.
ParseInit ==
    /\ VerInit /\ use_temp_email = TRUE /\ RegInit /\ FlowInit
    /\ MailIdle /\ UrlInit /\ MoreIdle
ParseSpec == ParseInit /\ [][Parse]_vars

\* the part of Init that belongs to parts 1 to 4, with no call under way
CoreIdle ==
    /\ VerInit /\ use_temp_email = TRUE /\ RegInit /\ FlowInit
    /\ MailIdle /\ UrlIdle

\* One call of wait_for_sheerid_email.
WaitNext ==
    \/ \E messages \in Inboxes : Wait_Poll(messages)
    \/ Wait_Timeout
WaitSpecInit == CoreIdle /\ WaitInit /\ HumanIdle /\ DbIdle
WaitSpec == WaitSpecInit /\ [][WaitNext]_vars
\* The interpreter keeps running the call: get_messages and
\* get_message_content return within the timeout of the http client (line
\* 19) and the sleep of line 219 is finite.
WaitFairSpec == WaitSpec /\ WF_vars(WaitNext)

\* One gate of the flow and the human-verification wait behind it.
HumanNext ==
    \/ Human_Gate
    \/ Human_Entry
    \/ \E raised \in BOOLEAN : Human_Sample(raised)
    \/ Human_GiveUp
    \/ Human_Flow
    \/ \E o \in Overlays : Overlay_Change(o)
HumanSpecInit == CoreIdle /\ WaitIdle /\ HumanInit /\ DbIdle
HumanSpec == HumanSpecInit /\ [][HumanNext]_vars

\* The steps that wait_for_human_verification and its caller take; the
\* changes of the overlay are not among them.
HumanSteps ==
    \/ Human_Gate
    \/ Human_Entry
    \/ \E raised \in BOOLEAN : Human_Sample(raised)
    \/ Human_GiveUp
    \/ Human_Flow
\* A run of run_registration_flow in which every wait is one step that ends
\* with what the page did or with its timeout, or else one gate of the flow
\* with the human-verification wait behind it sample by sample.  Each await
\* of the flow returns or raises in the end, which is the fairness assumed.
RunInit == FlowSpecInit \/ HumanSpecInit
RunFlowNext == hpc = "idle" /\ FlowNext
RunNext == RunFlowNext \/ HumanNext
\* Callers of deduct_balance on one user, statement by statement.
DeductNext ==
    \/ \E p \in Callers, amount \in 1..MaxBalance : Deduct_Read(p, amount)
    \/ \E p \in Callers, ok \in BOOLEAN : Deduct_Update(p, ok)
DeductSpecInit ==
    CoreIdle /\ WaitIdle /\ HumanIdle /\ DeductInit /\ KeyIdle /\ CheckinIdle
DeductSpec == DeductSpecInit /\ [][DeductNext]_vars

\* Calls of use_card_key one after the other.
KeyNext ==
    \/ \E u \in KeyUsers, raised \in BOOLEAN : Use_Card_Key(u, raised)
    \/ Key_Expire
KeySpecInit ==
    CoreIdle /\ WaitIdle /\ HumanIdle /\ DeductIdle /\ KeyInit /\ CheckinIdle
KeySpec == KeySpecInit /\ [][KeyNext]_vars

\* Calls of checkin as time passes.
CheckinNext ==
    \/ \E raised \in BOOLEAN : Checkin(raised)
    \/ Clock_Tick
CheckinSpecInit ==
    CoreIdle /\ WaitIdle /\ HumanIdle /\ DeductIdle /\ KeyIdle /\ CheckinInit
CheckinSpec == CheckinSpecInit /\ [][CheckinNext]_vars

RunFairSpec ==
    /\ RunInit /\ [][RunNext]_vars
    /\ WF_vars(RunFlowNext) /\ WF_vars(HumanSteps)

----------------------------------------------------------------------------
\* Properties of verify (specification Spec).

Done == pc = "done"
TheOutcome == outcomes[1]
Count(op) == Cardinality({i \in 1..Len(log) : log[i].op = op})
\* the step-n exchange returned HTTP 200 with a JSON object
Step1Ok ==
    /\ step1_data # None
    /\ step1_data[1].status = HTTP_OK
    /\ step1_data[1].data.kind = "dict"
Step2Ok ==
    /\ step2_data # None
    /\ step2_data[1].status = HTTP_OK
    /\ step2_data[1].data.kind = "dict"
Step1Is(s) == Step1Ok /\ step1_data[1].data.currentStep = s
Step2Is(s) == Step2Ok /\ step2_data[1].data.currentStep = s
Failed(o) == o.success = Some(FALSE) /\ o.pending # Some(TRUE)
\* the Chinese word for mailbox (U+90AE U+7BB1) used by the messages
MAILBOX_WORD == <<37038, 31665>>

\* C2: a step-1 response with HTTP 200 and currentStep "error" ends the call
\* without a step-2 request, with one failed outcome (success False, pending
\* not True) whose message contains the joined errorIds.
C2_Step1ErrorAborts ==
    (Done /\ Step1Is(Some("error"))) =>
        /\ Len(outcomes) = 1
        /\ Failed(TheOutcome)
        /\ Count("POST") = 1
        /\ step2_data = None
        /\ step1_data[1].data.errorIds # None =>
               Contains(TheOutcome.message[1],
                        Join(step1_data[1].data.errorIds[1]))
        /\ step1_data[1].data.errorIds = None =>
               Contains(TheOutcome.message[1], Cp("Unknown error"))

C2_Witness ==
    /\ Done
    /\ Step1Is(Some("error"))
    /\ step1_data[1].data.errorIds
           = Some(<<"notApproved", "expiredVerification">>)

\* the defined outcome of a terminal step-2 currentStep
TerminalDispatchOk(o, d) ==
    /\ o.status = Some(d)
    /\ d.currentStep = Some("success") =>
           /\ o.success = Some(TRUE)
           /\ o.pending = Some(FALSE)
           /\ o.message = Some(MSG_SUCCESS)
    /\ d.currentStep = Some("pending") =>
           /\ o.success = Some(TRUE)
           /\ o.pending = Some(TRUE)
           /\ o.message = Some(MSG_PENDING)
    /\ d.currentStep = Some("docUpload") =>
           /\ Failed(o)
           /\ o.message = Some(MSG_DOC_UPLOAD)
    /\ d.currentStep \notin {Some("success"), Some("pending"),
                             Some("docUpload")} =>
           /\ Failed(o)
           /\ o.current_step = d.currentStep
           /\ o.message = Some(MSG_UNKNOWN_PREFIX \o FormatOpt(d.currentStep))
           /\ Contains(o.message[1], FormatOpt(d.currentStep))

\* the mailbox was handed the run: a poll is under way or was made
HandedOff == pc \in {"poll", "click", "recheck"} \/ Count("poll") > 0

\* the part of C3 that holds of every step-2 currentStep except emailLoop
C3_Terminal ==
    /\ escaped = 0
    /\ Done /\ Step2Ok /\ ~Step2Is(Some("error"))
            /\ ~Step2Is(Some("emailLoop")) =>
           /\ Len(outcomes) = 1
           /\ TerminalDispatchOk(TheOutcome, step2_data[1].data)
           /\ ~HandedOff
    /\ Done /\ Step2Is(Some("emailLoop")) => Len(outcomes) = 1

\* C3 as claimed: every step-2 currentStep selects its branch of the table
\* and gives a defined outcome, and emailLoop is handed to the mailbox.
C3_DispatchAsClaimed ==
    /\ C3_Terminal
    /\ Step2Is(Some("emailLoop")) => HandedOff

\* C3 (amended): as claimed, but emailLoop is handed to the mailbox exactly
\* when the run holds a mailbox client; without one the call returns the
\* failed email outcome at once, with no poll.
C3_Dispatch ==
    /\ C3_Terminal
    /\ Step2Is(Some("emailLoop")) /\ temp_email_service => HandedOff
    /\ Step2Is(Some("emailLoop")) /\ ~temp_email_service =>
           /\ Done
           /\ ~HandedOff
           /\ TheOutcome = EmailFailedOutcome(Some("emailLoop"),
                                              step2_data[1].data)

C3_Witness ==
    /\ Done
    /\ Step2Is(Some("emailLoop"))
    /\ ~temp_email_service
    /\ email = "given"
    /\ Count("poll") = 0
    /\ TheOutcome.message = Some(MSG_EMAIL_FAILED)

\* C4: a step-2 response with HTTP 200 and currentStep "error" gives one
\* failed outcome whose message carries the errorIds, with no mailbox poll,
\* no link follow and no status re-check.
C4_Step2ErrorTerminal ==
    (Done /\ Step2Is(Some("error"))) =>
        /\ Len(outcomes) = 1
        /\ Failed(TheOutcome)
        /\ Count("poll") = 0 /\ Count("click") = 0 /\ Count("GET") = 0
        /\ final_data = None
        /\ step2_data[1].data.errorIds # None =>
               Contains(TheOutcome.message[1],
                        Join(step2_data[1].data.errorIds[1]))

C4_Witness ==
    /\ Done
    /\ Step2Is(Some("error"))
    /\ temp_email_service
    /\ step2_data[1].data.errorIds = Some(<<"expiredVerification">>)

\* C5: every verify call ends by returning exactly one outcome record with
\* a boolean success and a message; no exception leaves the call, and a call
\* that is under way always comes to its return.
C5_ExactlyOneOutcome ==
    /\ [](/\ escaped = 0
          /\ ~Done => outcomes = <<>>
          /\ Done =>
                /\ Len(outcomes) = 1
                /\ TheOutcome.success \in {Some(TRUE), Some(FALSE)}
                /\ TheOutcome.message # None)
    /\ (pc \in {"step1", "step2", "poll", "click", "recheck"}) ~> Done

C5_Witness ==
    /\ Done
    /\ step2_data = None
    /\ step1_data = None
    /\ Count("POST") = 1
    /\ TheOutcome.message = Some(MSG_TRANSPORT)

\* C7: step 1 non-error and step 2 "success" (both HTTP 200) give success
\* True, pending False, and the redirectUrl and rewardCode of step 2.
C7_ScenarioA ==
    (Done /\ Step1Ok /\ ~Step1Is(Some("error")) /\ Step2Is(Some("success")))
    =>
        /\ Len(outcomes) = 1
        /\ TheOutcome.success = Some(TRUE)
        /\ TheOutcome.pending = Some(FALSE)
        /\ TheOutcome.redirect_url = step2_data[1].data.redirectUrl
        /\ TheOutcome.reward_code = step2_data[1].data.rewardCode

C7_Witness ==
    /\ Done
    /\ Step1Is(Some("collectInactiveMilitaryPersonalInfo"))
    /\ Step2Is(Some("success"))
    /\ TheOutcome.redirect_url = Some("https://x")
    /\ TheOutcome.reward_code = Some("R1")

\* C8: after emailLoop, a link from the poll and a successful follow, the
\* call issues one status GET and branches on its currentStep: pending gives
\* success True / pending True, success gives success True / pending False
\* with the redirect and reward of the re-check, anything else fails.
C8_RecheckBranches ==
    /\ link_followed = Some(TRUE) =>
           /\ Step2Is(Some("emailLoop"))
           /\ verification_url # None
           /\ pc \in {"recheck", "done"}
           /\ Count("GET") = (IF Done THEN 1 ELSE 0)
    /\ (Done /\ link_followed = Some(TRUE)) =>
           /\ Len(outcomes) = 1
           /\ log[Len(log)] = [op |-> "GET", url |-> StatusUrl, vid |-> None]
           /\ final_data = None => Failed(TheOutcome)
           /\ final_data # None =>
               LET d == final_data[1].data
               IN  /\ d.kind = "dict" /\ d.currentStep = Some("pending") =>
                       /\ TheOutcome.success = Some(TRUE)
                       /\ TheOutcome.pending = Some(TRUE)
                   /\ d.kind = "dict" /\ d.currentStep = Some("success") =>
                       /\ TheOutcome.success = Some(TRUE)
                       /\ TheOutcome.pending = Some(FALSE)
                       /\ TheOutcome.redirect_url = d.redirectUrl
                       /\ TheOutcome.reward_code = d.rewardCode
                   /\ ~(d.kind = "dict" /\ d.currentStep \in
                            {Some("pending"), Some("success")}) =>
                       Failed(TheOutcome)

C8_Witness ==
    /\ Done
    /\ link_followed = Some(TRUE)
    /\ final_data # None
    /\ final_data[1].data.currentStep = Some("success")
    /\ final_data[1].data.redirectUrl = Some("https://x")
    /\ step2_data[1].data.redirectUrl = None

\* the poll of the current call ended by timeout
PollTimedOut == Done /\ ~(elapsed < MAX_WAIT)

\* C9 as claimed: after emailLoop and a poll that timed out, the outcome has
\* success False and a message containing "email", and no link was followed
\* and no status was re-checked.
C9_TimeoutAsClaimed ==
    PollTimedOut =>
        /\ Failed(TheOutcome)
        /\ Contains(TheOutcome.message[1], NEEDLE_EMAIL)
        /\ Count("click") = 0 /\ Count("GET") = 0

\* C9 (amended): after emailLoop and a poll that timed out at the ceiling,
\* the outcome has success False, current_step emailLoop and the fixed
\* mailbox-verification-failed message of line 319 (a Chinese text naming the
\* mailbox), and no link was followed and no status was re-checked.
C9_Timeout ==
    PollTimedOut =>
        /\ Step2Is(Some("emailLoop"))
        /\ Len(outcomes) = 1
        /\ Failed(TheOutcome)
        /\ TheOutcome.message = Some(MSG_EMAIL_FAILED)
        /\ Contains(TheOutcome.message[1], MAILBOX_WORD)
        /\ TheOutcome.current_step = Some("emailLoop")
        /\ Count("poll") > 0
        /\ Count("click") = 0 /\ Count("GET") = 0
        /\ verification_url = None /\ link_followed = None

C9_Witness == PollTimedOut /\ Count("poll") > 0

----------------------------------------------------------------------------
\* Properties of the registration tasks (specifications RegSpec, RegFairSpec).

\* the run of task t is between browser launch and browser close
InSession(t) == rpc[t] \in {"launched", "flow", "closing"}

\* C1: under any interleaving of the triggered tasks, at most one run is
\* between browser launch and browser close, and at most one browser is open.
C1_OneBrowserSession ==
    /\ Cardinality({t \in Tasks : InSession(t)}) <= 1
    /\ Cardinality({t \in Tasks : browser[t] = "open"}) <= 1
    /\ \A t \in Tasks : InSession(t) \/ browser[t] = "open" => locked

C1_Witness ==
    \E t, u \in Tasks :
        /\ InSession(t)
        /\ browser[t] = "open"
        /\ rpc[u] = "waiting"

\* C6: no exception leaves run_registration_flow: every run that ended gave
\* its caller a tuple (success, message, account).
C6_NoExceptionEscapes ==
    \A t \in Tasks : result[t].kind # "exception"

Range(q) == {q[i] : i \in 1..Len(q)}

\* C10: a run requested while the gate is held is queued, never dropped:
\* under fair scheduling every triggered task comes to hold the lock, and
\* every run that holds it ends and hands its result (the tuple, or the
\* exception it ended by) to the run_and_notify of its own trigger.
C10_QueuedRunsComplete ==
    /\ [](\A t \in Tasks : rpc[t] = "waiting" <=> t \in Range(waiters))
    /\ \A t \in Tasks : (rpc[t] \in {"created", "waiting"}) ~> (rpc[t] = "holding")
    /\ \A t \in Tasks :
           (rpc[t] = "holding") ~>
               (/\ rpc[t] = "ended"
                /\ result[t].kind # "none"
                /\ result[t].account = t)

C10_Witness ==
    \E t, u \in Tasks :
        /\ t # u
        /\ resumed = Some(t)
        /\ rpc[t] = "notified" /\ rpc[u] = "notified"
        /\ result[t].kind = "tuple"

\* C11: the gate is taken before the browser is launched (a running browser
\* always belongs to the task that holds the gate), the gate is released only
\* once no browser of the run is running any more, and every exit path
\* releases it: the step that ends a run leaves the gate free, and the gate
\* is never held without a run in progress.
RunInProgress(t) == rpc[t] \in {"holding", "launched", "flow", "closing",
                                "stopping"}
C11_GateBracketsBrowser ==
    /\ [](\A t \in Tasks : browser[t] = "open" => locked /\ RunInProgress(t))
    /\ [](locked => \E t \in Tasks : RunInProgress(t))
    /\ [][(locked /\ ~locked') => \A t \in Tasks : browser'[t] # "open"]_vars
    /\ [][\A t \in Tasks :
             (RunInProgress(t) /\ ~RunInProgress(t)') => ~locked']_vars
C11_Witness ==
    \E t \in Tasks :
        /\ rpc[t] = "ended"
        /\ browser[t] = "closed"
        /\ ~locked
        /\ woken # None

----------------------------------------------------------------------------
\* Properties of the flow body (specification FlowSpec).

\* the steps of birth-date field f, in the order they were taken
FieldEvents(f) == SelectSeq(ftrace, LAMBDA ev : ev.f = f)
Took(f, e) == \E i \in 1..Len(ftrace) : ftrace[i] = Ev(f, e)
Returned == fpc = "returned"

\* C13: for the month and for the day, when the page has a native select
\* the value is chosen through select_option: that call is the only step the
\* flow takes for the field (no popup is opened, no positional selection, no
\* manual wait), and the field either has its value by the native path or
\* the call raised and the run ended with the flow-error result.
C13_NativeSelectOnly ==
    \A f \in BirthFields :
        Took(f, "native") =>
            /\ FieldEvents(f) = <<Ev(f, "native")>>
            /\ \/ chosen_by[f] = "native"
               \/ /\ chosen_by[f] = "none"
                  /\ Returned
                  /\ ~fresult[1].success
                  /\ ftrace[Len(ftrace) - 1] = Ev("-", "raised")
C13_Witness ==
    /\ Returned
    /\ fresult[1].success
    /\ chosen_by = [f \in BirthFields |-> "native"]

\* the stage a step of a field without native select belongs to: the popup
\* with its labels, the positional selection, the check and the manual wait,
\* the end of the wait
C14_Stage(e) ==
    CASE e \in {"positional", "positional_failed"} -> 2
      [] e \in {"has_value", "manual_wait"} -> 3
      [] e \in {"manual_filled", "wait_timeout"} -> 4
      [] OTHER -> 1

\* C14: for a field without native select the steps come in the order
\* popup and label match, positional selection, manual wait, failure; the
\* positional selection is used only after the popup was opened and no label
\* matched; the manual wait starts only when the selection returned False or
\* left the control without a value; the failure result of the field is
\* returned only after the manual wait ran out.
C14_FallbackOrder ==
    \A f \in BirthFields :
        Took(f, "no_native") =>
            LET E == FieldEvents(f)
            IN  /\ \A i, j \in 1..Len(E) :
                       i < j => C14_Stage(E[i].e) <= C14_Stage(E[j].e)
                /\ \A i \in 1..Len(E) :
                       E[i].e = "positional" =>
                           /\ i > 2
                           /\ E[i - 1].e = "no_label_match"
                           /\ E[i - 2].e = "opened"
                           /\ \A j \in 1..i : E[j].e # "label_match"
                /\ (fpc = "manual" /\ field = f) =>
                       /\ E[Len(E)].e = "manual_wait"
                       /\ ~sel_ok \/ has_value = Some(FALSE)
                /\ (Returned /\ fresult[1].message = FLOW_MSG[f]) =>
                       /\ Len(E) > 2
                       /\ E[Len(E)].e = "wait_timeout"
                       /\ E[Len(E) - 1].e = "manual_wait"
                       /\ ftrace[Len(ftrace)] = Ev(f, "wait_timeout")
C14_Witness ==
    /\ Returned
    /\ fresult[1].message = FLOW_MSG["day"]
    /\ Took("day", "positional")
    /\ sel_ok
    /\ chosen_by["month"] = "label"

\* C15: the flow returns success only when, after the block check passed,
\* the last wait saw a URL containing outlook.live.com, kmsi or SummaryPage;
\* when the wait ends on any other URL the result is the timeout failure.
C15_SuccessOnlyAfterRedirect ==
    Returned =>
        /\ fresult[1].success =>
              /\ final_url # None
              /\ UrlDone(final_url[1])
              /\ fresult[1].message = FLOW_MSG.registered
              /\ ftrace[Len(ftrace)] = Ev("-", "redirected")
              /\ \E i \in 1..(Len(ftrace) - 1) :
                    ftrace[i] = Ev("-", "block_check_passed")
        /\ (final_url # None /\ ~UrlDone(final_url[1])) =>
              fresult[1] = [success |-> FALSE, message |-> FLOW_MSG.timed_out]
C15_Witness ==
    /\ Returned
    /\ fresult[1].success
    /\ final_url = Some(PAGE_URL.summary)

----------------------------------------------------------------------------
\* Properties of the pure functions (specifications ExtractSpec, ParseSpec).

C17_Kinds == <<"verify", "token=", "confirm", "/">>
\* the URL that starts at token i of a text: up to the next delimiter
C17_UrlAt(c, i) ==
    LET e == CHOOSE n \in i..Len(c) :
                 /\ \A m \in (i + 1)..n : c[m] \notin Delimiters
                 /\ n = Len(c) \/ c[n + 1] \in Delimiters
    IN  SubSeq(c, i, e)
C17_IsUrl(u, kind) ==
    /\ u[1] \in {"https://", "http://"}
    /\ \E j \in 2..Len(u) :
          /\ u[j] = "sheerid.com"
          /\ CASE kind = "/" -> j + 2 <= Len(u) /\ u[j + 1] = "/"
               [] kind = "token=" ->
                    \E k \in (j + 1)..(Len(u) - 1) : u[k] = "token="
               [] OTHER -> \E k \in (j + 1)..Len(u) : u[k] = kind
C17_Hits(c, kind) ==
    {i \in 1..Len(c) :
        c[i] \in {"https://", "http://"} /\ C17_IsUrl(C17_UrlAt(c, i), kind)}
C17_Least(S) == CHOOSE i \in S : \A m \in S : i <= m
C17_Unescaped(u) ==
    [i \in 1..Len(u) |-> IF u[i] = "&amp;" THEN "&" ELSE u[i]]
C17_Expected(c) ==
    LET K == {k \in 1..Len(C17_Kinds) : C17_Hits(c, C17_Kinds[k]) # {}}
    IN  IF K = {} THEN None
        ELSE Some(C17_Unescaped(
                 C17_UrlAt(c, C17_Least(C17_Hits(c, C17_Kinds[C17_Least(K)])))))

\* C17: the result is the leftmost URL of the most preferred kind that the
\* content (HTML part followed by text part) holds, with &amp; unescaped, and
\* None when it holds a URL of no kind; so a verify-path URL wins over a URL
\* that is only of the generic kind wherever the two stand.
C17_PatternOrder ==
    \A n \in 1..Len(extracted) :
        LET c == Content(mail_message)
        IN  /\ extracted[n] = C17_Expected(c)
            /\ C17_Hits(c, "verify") # {} =>
                  /\ extracted[n] # None
                  /\ \E j, k \in 1..Len(extracted[n][1]) :
                        /\ j < k
                        /\ extracted[n][1][j] = "sheerid.com"
                        /\ extracted[n][1][k] = "verify"
C17_Witness ==
    /\ mail_message = [html |-> Some(JoinWords(<<WORD.generic, WORD.verify>>)),
                       text |-> None]
    /\ extracted # <<>>
    /\ extracted[1] = Some(WORD.verify)

\* the digits that follow token i of a url, up to the first other token
C18_Run(u, i) ==
    LET e == CHOOSE n \in i..Len(u) :
                 /\ \A m \in (i + 1)..n : u[m] \in {"a", "F", "7"}
                 /\ n = Len(u) \/ u[n + 1] \notin {"a", "F", "7"}
    IN  SubSeq(u, i + 1, e)
\* the places where a key of the set keys is followed by a digit
C18_KeyPlaces(u, keys) ==
    {i \in 1..(Len(u) - 1) : u[i] \in keys /\ u[i + 1] \in {"a", "F", "7"}}
C18_Sound(keys) ==
    \A n \in 1..Len(parsed) :
        /\ C18_KeyPlaces(id_url, keys) # {} =>
              parsed[n] =
                  Some(C18_Run(id_url, C17_Least(C18_KeyPlaces(id_url, keys))))
        /\ (\A i \in 1..Len(id_url) : id_url[i] \notin keys) =>
              parsed[n] = None

\* C18 as claimed: the key is verificationId= as spelled.
C18_ParseAsClaimed == C18_Sound({"verificationId="})

\* C18: with the key read in any letter case (re.IGNORECASE), the function
\* returns the maximal run of hexadecimal digits that follows the first key
\* followed by at least one digit, and None for a url that has no key.
C18_Parse == C18_Sound({"verificationId=", "VERIFICATIONID="})
C18_Witness ==
    /\ id_url = <<"VERIFICATIONID=", "&", "verificationId=", "a">>
    /\ parsed # <<>>
    /\ parsed[1] = Some(<<"a">>)

----------------------------------------------------------------------------
\* Further properties of verify (specification Spec).

\* the place of a step in the protocol: status, personal info, email loop
\* or document upload, pending, success; 0 for error, a missing step and any
\* other name
C19_Rank(step) ==
    CASE step = Some("collectMilitaryStatus") -> 1
      [] step = Some("collectInactiveMilitaryPersonalInfo") -> 2
      [] step \in {Some("emailLoop"), Some("docUpload")} -> 3
      [] step = Some("pending") -> 4
      [] step = Some("success") -> 5
      [] OTHER -> 0
C19_StepOf(exchange) ==
    IF exchange[1].status = HTTP_OK /\ exchange[1].data.kind = "dict"
    THEN exchange[1].data.currentStep
    ELSE None
C19_Abandoned == Done /\ Len(outcomes) = 1 /\ Failed(TheOutcome)

\* C19 as claimed: every exchange of a run (step-1 POST on the session at
\* collectMilitaryStatus, step-2 POST, re-check GET) either moves the
\* current step to a later step of the protocol, or the run is abandoned
\* with a failed outcome.
C19_StepsNeverRegress ==
    /\ step1_data # None =>
          \/ C19_Rank(C19_StepOf(step1_data)) > 1
          \/ C19_Abandoned /\ step2_data = None
    /\ step2_data # None =>
          \/ C19_Rank(C19_StepOf(step2_data))
                > C19_Rank(C19_StepOf(step1_data))
          \/ C19_Abandoned /\ final_data = None
    /\ final_data # None =>
          \/ C19_Rank(C19_StepOf(final_data))
                > C19_Rank(C19_StepOf(step2_data))
          \/ C19_Abandoned

\* C20 as claimed: a response with a status other than 200 to the step-1
\* POST, to the step-2 POST or to the re-check GET ends the run with one
\* failed outcome, whatever its body, and the request is not repeated.
C20_Non200Fails ==
    /\ (step1_data # None /\ step1_data[1].status # HTTP_OK) =>
          /\ C19_Abandoned
          /\ Count("POST") = 1 /\ Count("GET") = 0
    /\ (step2_data # None /\ step2_data[1].status # HTTP_OK) =>
          /\ C19_Abandoned
          /\ Count("POST") = 2 /\ Count("GET") = 0
    /\ (final_data # None /\ final_data[1].status # HTTP_OK) =>
          /\ C19_Abandoned
          /\ Count("POST") = 2 /\ Count("GET") = 1

\* the run asked for a mailbox and create_account returned None, at the
\* stage recorded in the entry
C21_MailboxFailed ==
    /\ Len(log) >= 1
    /\ log[1].op = "create_account"
    /\ log[1].url # "ok"

\* C21: when the creation of the mailbox fails at any stage (no domain,
\* account not created, login refused) the run goes on with a generated
\* address and without a mailbox client: it ends before the step-1 POST only
\* for an unknown organization, sends the step-2 POST whenever step 1 handed
\* over to it, and on emailLoop returns the failed email outcome without one
\* inbox poll, link follow or status re-check.
C21_MailboxFailureTolerated ==
    C21_MailboxFailed =>
        /\ email = "generated"
        /\ ~temp_email_service
        /\ Count("poll") = 0 /\ Count("click") = 0 /\ Count("GET") = 0
        /\ pc # "idle"
        /\ (Done /\ Count("POST") = 0) =>
               /\ Len(outcomes) = 1
               /\ TheOutcome.message[1][1] = 39
        /\ (Done /\ Step1Ok /\ ~IsErrorStep(step1_data[1].data)) =>
               Count("POST") = 2
        /\ (Done /\ Step2Is(Some("emailLoop"))) =>
               /\ Len(outcomes) = 1
               /\ TheOutcome = EmailFailedOutcome(Some("emailLoop"),
                                                  step2_data[1].data)
C21_Witness ==
    /\ Done
    /\ C21_MailboxFailed
    /\ log[1].url = "login_failed"
    /\ Step2Is(Some("emailLoop"))
    /\ Count("POST") = 2

\* the link was found and following it failed (click_verification_link
\* returned False)
C22_FollowFailed == Done /\ link_followed = Some(FALSE)
\* what verify returns in this run when the poll times out (lines 312-323)
C22_TimeoutReport == EmailFailedOutcome(final_step, step2_data[1].data)

\* C22 as claimed: what verify returns after a link whose follow failed
\* differs from what it returns after a poll that timed out, as the answers
\* of the mailbox client do (no url against a url and a False result).
C22_TimeoutReportedDistinctly ==
    /\ PollTimedOut =>
          /\ verification_url = None
          /\ link_followed = None
          /\ TheOutcome = C22_TimeoutReport
    /\ C22_FollowFailed =>
          /\ verification_url # None
          /\ TheOutcome # C22_TimeoutReport

\* C23 as claimed: following a link whose response text contains "error" or
\* "expired" yields False, whatever the status and whatever else the text
\* contains.
C23_FailClosedOnNegativeMarkers ==
    [][\A r \in LinkResponses :
          (Verify_Click(r) /\ ~r.raised /\ r.negative) =>
              link_followed' = Some(FALSE)]_vars

\* the current run created a mailbox account
C29_CreatedMailbox ==
    /\ Len(log) >= 1
    /\ log[1] = [op |-> "create_account", url |-> "ok", vid |-> None]

\* C29 as claimed: a run creates at most one mailbox account, and an inbox
\* is polled only in the run that created its mailbox: a run that created
\* none (a later call with an address of the caller included) neither polls
\* nor is about to poll.
C29_MailboxNotCarriedOver ==
    /\ Count("create_account") <= 1
    /\ (Count("poll") > 0 \/ pc = "poll") => C29_CreatedMailbox

\* the step names of a step-2 response that end the run at once
C30_TerminalSteps == Step2Names \ {"emailLoop"}

\* C30: when step 2 answers with a terminal currentStep (success, pending,
\* docUpload or a name verify does not know) the run is over with that
\* answer: no inbox poll, no GET of a link, no GET of the status, nothing
\* waited for, and the two POSTs are the only requests of the run.
C30_TerminalStepNoMailboxTraffic ==
    \A s \in C30_TerminalSteps :
        Step2Is(Some(s)) =>
            /\ Done
            /\ Count("poll") = 0 /\ Count("click") = 0 /\ Count("GET") = 0
            /\ Count("POST") = 2
            /\ log[Len(log)].op = "POST"
            /\ verification_url = None
            /\ link_followed = None
            /\ final_data = None
            /\ elapsed = 0
C30_Witness ==
    /\ Done
    /\ Step2Is(Some("pending"))
    /\ temp_email_service
    /\ C29_CreatedMailbox
    /\ Len(log) = 3

----------------------------------------------------------------------------
\* Further properties of the flow body (specification FlowSpec).

\* how often a step outside the birth-date fields was taken
CountEv(e) == Cardinality({i \in 1..Len(ftrace) : ftrace[i] = Ev("-", e)})
\* how often the email value was submitted
C24_Submissions == CountEv("email_typed") + CountEv("email_retyped")
\* the run ended with the failure message msg
FailedWith(msg) ==
    Returned /\ fresult = Some([success |-> FALSE, message |-> msg])

\* C24 as claimed: a validation message that reports the value as taken or
\* as invalid is followed by exactly one retry with the full address, the
\* run fails for the email value only after that retry, and the value is
\* submitted at most twice.
C24_RetryOnTakenOrInvalid ==
    /\ C24_Submissions <= 2
    /\ (\E m \in {"invalid", "taken", "invalid_taken"} : Took("-", m)) =>
           CountEv("email_retyped") = 1
    /\ (FailedWith(FLOW_MSG.email_taken)
           \/ FailedWith(FLOW_MSG.username_taken)) =>
           /\ Took("-", "email_retyped")
           /\ Took("-", "followup_taken")

\* C24 (amended): the retry belongs to the message that asks for an email
\* address: it is followed at once by one retry with the full address, and
\* the run fails with "Email already taken." exactly when the message after
\* the retry reports the value as taken, and goes on otherwise.  A first
\* message that only reports the value as taken ends the run at once with
\* "Username already taken.", without a retry.  The value is submitted at
\* most twice.
C24_RetryOnInvalidOnly ==
    /\ C24_Submissions <= 2
    /\ CountEv("email_typed") <= 1
    /\ \A i \in 1..Len(ftrace) :
           (ftrace[i].f = "-" /\ AsksForAddress(ftrace[i].e)) =>
               /\ i > 1 /\ ftrace[i - 1] = Ev("-", "email_typed")
               /\ i < Len(ftrace) /\ ftrace[i + 1] = Ev("-", "email_retyped")
               /\ CountEv("email_retyped") = 1
    /\ (\A m \in {"invalid", "invalid_taken"} : ~Took("-", m)) =>
           CountEv("email_retyped") = 0
    /\ Took("-", "taken") =>
           /\ FailedWith(FLOW_MSG.username_taken)
           /\ ftrace[Len(ftrace)] = Ev("-", "taken")
    /\ FailedWith(FLOW_MSG.username_taken) => Took("-", "taken")
    /\ Took("-", "followup_taken") <=> FailedWith(FLOW_MSG.email_taken)
    /\ \A i \in 1..Len(ftrace) :
           ftrace[i] \in {Ev("-", "followup_none"), Ev("-", "followup_other")}
               => /\ i < Len(ftrace)
                  /\ ftrace[i + 1] = Ev("-", "consent_check")
C24_Witness ==
    /\ Returned
    /\ fresult[1].success
    /\ Took("-", "invalid_taken")
    /\ Took("-", "followup_other")
    /\ C24_Submissions = 2

\* C25: a blocked or unusual-activity marker ends the run at once with the
\* blocked result, after save_debug_info: the identity is not saved, the
\* wait for the final redirect is not entered, and the check is made once.
C25_BlockedFailsFast ==
    Took("-", "blocked") =>
        /\ FailedWith(FLOW_MSG.blocked)
        /\ Len(ftrace) >= 2
        /\ ftrace[Len(ftrace) - 1] = Ev("-", "blocked")
        /\ ftrace[Len(ftrace)] = Ev("-", "save_debug_info")
        /\ CountEv("saved") = 0 /\ CountEv("save_failed") = 0
        /\ final_url = None
        /\ CountEv("redirected") = 0 /\ CountEv("wait_timeout") = 0
        /\ CountEv("blocked") = 1 /\ CountEv("block_check_passed") = 0
        /\ CountEv("next") = 1
C25_Witness ==
    /\ Returned
    /\ Took("-", "blocked")
    /\ chosen_by = [month |-> "label", day |-> "manual"]

\* the steps that fill a page of the form
C26_Primary == {"email_typed", "password_typed", "name_typed", "year_typed"}
\* both interstitial checks were made between steps j and i of ftrace
C26_BothChecks(j, i) ==
    /\ \E k \in (j + 1)..(i - 1) : ftrace[k] = Ev("-", "consent_check")
    /\ \E k \in (j + 1)..(i - 1) : ftrace[k] = Ev("-", "human_check")
\* the last primary step before step i, 0 when there is none
C26_Previous(i) ==
    LET before == {j \in 1..(i - 1) :
                      ftrace[j].f = "-" /\ ftrace[j].e \in C26_Primary}
    IN  IF before = {} THEN 0 ELSE CHOOSE j \in before : \A k \in before : k <= j

\* C26 as claimed: the consent check and the human-verification check have
\* both been made before the first primary step and between every primary
\* step and the next, and after the birth date before the block check.
C26_ChecksBracketEveryStep ==
    \A i \in 1..Len(ftrace) :
        (ftrace[i].f = "-"
            /\ ftrace[i].e \in C26_Primary
                   \cup {"block_check_passed", "blocked"}) =>
            C26_BothChecks(C26_Previous(i), i)

\* C27 as claimed: a run that returns a failure has called save_debug_info
\* before it returns (the browser is closed after the return statement).
C27_FailureSavesDebugInfo ==
    (Returned /\ ~fresult[1].success) => CountEv("save_debug_info") >= 1

\* C28: a run that returns success has called save_to_excel exactly once,
\* after the block check and before the wait for the final redirect; no run
\* calls it twice.
C28_SavedOnceOnSuccess ==
    /\ CountEv("saved") + CountEv("save_failed") <= 1
    /\ (Returned /\ fresult[1].success) =>
           /\ CountEv("saved") + CountEv("save_failed") = 1
           /\ Len(ftrace) >= 3
           /\ ftrace[Len(ftrace)] = Ev("-", "redirected")
           /\ ftrace[Len(ftrace) - 1] \in {Ev("-", "saved"),
                                           Ev("-", "save_failed")}
           /\ ftrace[Len(ftrace) - 2] = Ev("-", "block_check_passed")
C28_Witness ==
    /\ Returned
    /\ fresult[1].success
    /\ CountEv("saved") = 1
    /\ Took("-", "other")

----------------------------------------------------------------------------
\* Properties of wait_for_sheerid_email (specification WaitFairSpec).

\* the message matches the sender/subject heuristic and holds a link
C31_Hit(msg) ==
    /\ msg.from_address = "sheerid" \/ msg.subject = "verify"
    /\ msg.content \in {"L1", "L2"}
\* the link of the first such message of an inbox, None when there is none
C31_FirstHit(box) ==
    LET hits == {i \in DOMAIN box : C31_Hit(box[i])}
    IN  IF hits = {} THEN None
        ELSE Some(box[CHOOSE i \in hits : \A j \in hits : i <= j].content)

C31_Safe ==
    /\ wpc = "loop" => wurl = None /\ wpolls * POLL_INTERVAL = wclock
    /\ (wpc = "returned" /\ wurl # None) =>
           /\ wclock < MAX_WAIT
           /\ wpolls * POLL_INTERVAL = wclock + POLL_INTERVAL
           /\ \E i \in DOMAIN winbox :
                  /\ C31_Hit(winbox[i])
                  /\ wurl = Some(winbox[i].content)
                  /\ \A j \in 1..(i - 1) : ~C31_Hit(winbox[j])
                  /\ \A j \in 1..i : winbox[j].from_address # "null"
    /\ (wpc = "returned" /\ wurl = None) =>
           /\ wclock >= MAX_WAIT
           /\ wpolls * POLL_INTERVAL = wclock
    /\ wpc = "raised" =>
           /\ wurl = None
           /\ \E i \in DOMAIN winbox :
                  /\ winbox[i].from_address = "null"
                  /\ \A j \in 1..(i - 1) :
                         /\ ~C31_Hit(winbox[j])
                         /\ winbox[j].from_address # "null"

----------------------------------------------------------------------------
\* Properties of the human-verification wait (specification HumanSpec).

\* C32 as claimed: the flow leaves a gate for the next primary step only
\* when the overlay is not there or not visible; wait_for_human_verification
\* returns True only then, returns False only when the ceiling was reached
\* with the overlay visible at every look, and False ends the run.
C32_SuspendedWhileOverlayVisible ==
    /\ hpc = "proceeded" => hseen # Some("visible")
    /\ (hpc = "returned" /\ hresult = Some(TRUE)) => overlay # "visible"
    /\ hresult = Some(FALSE) => hclock >= HUMAN_TIMEOUT_MS
    /\ hpc = "failed" <=> (hresult = Some(FALSE) /\ hpc # "returned")

----------------------------------------------------------------------------
\* Where step 2 is sent (specification Spec).

\* the requests of a run, without the creation of the mailbox
C33_Posts == SelectSeq(log, LAMBDA e : e.op = "POST")
\* C33: the second POST of a run goes to the submissionUrl of the step-1
\* answer when that is a non-empty string and to the default
\* collectInactiveMilitaryPersonalInfo url of this verification id
\* otherwise, and its body carries this run's verification id.
C33_Step2Target ==
    Len(C33_Posts) >= 2 =>
        /\ step1_data # None
        /\ LET su == step1_data[1].data.submissionUrl
           IN  C33_Posts[2].url =
                   IF su # None /\ su # Some("") THEN su[1]
                   ELSE SHEERID_BASE_URL \o "/rest/v2/verification/"
                            \o VerificationId
                            \o "/step/collectInactiveMilitaryPersonalInfo"
        /\ C33_Posts[2].vid = Some(VerificationId)
C33_Witness ==
    /\ Len(C33_Posts) = 2
    /\ C33_Posts[2].url = "https://services.sheerid.com/submit"
    /\ step2_data # None

----------------------------------------------------------------------------
\* current_step against the status payload (specification Spec).

\* C34 as claimed: an outcome of verify that has both current_step and
\* status has the currentStep of its status payload as current_step, the
\* outcome after a re-check that is neither success nor pending included.
C34_StepMatchesStatus ==
    (Done /\ Len(outcomes) = 1
          /\ TheOutcome.current_step # None /\ TheOutcome.status # None) =>
        TheOutcome.current_step = TheOutcome.status[1].currentStep

----------------------------------------------------------------------------
\* Termination of the registration flow (specification RunFairSpec).

\* the run, or the gate looked at in detail, is over
C35_Over ==
    IF hpc = "idle" THEN fpc = "returned" ELSE hpc \in {"proceeded", "failed"}
----------------------------------------------------------------------------
\* Persistence of the identity (specification FlowSpec).

\* C36 as claimed: a run that returns failure has not called save_to_excel.
C36_FailureNeverSaved ==
    (Returned /\ ~fresult[1].success) =>
        \A i \in 1..Len(ftrace) : ftrace[i].e \notin {"saved", "save_failed"}

----------------------------------------------------------------------------
\* Properties of the database (specifications DeductSpec, KeySpec and
\* CheckinSpec).

\* C37 as claimed: whatever the interleaving of the calls of deduct_balance
\* on one user, the balance is never negative, a call goes on to its UPDATE
\* only when the balance it read covers its amount, and a call that finds no
\* row or too small a balance returns False.
C37_BalanceNeverNegative ==
    /\ dbal # None => dbal[1] >= 0
    /\ \A p \in Callers :
          /\ dpc[p] = "update" => (dread[p] # None /\ dread[p][1] >= damt[p])
          /\ (dpc[p] = "done" /\ (dread[p] = None \/ dread[p][1] < damt[p]))
                 => dret[p] = Some(FALSE)

\* C38 as claimed: the key has current_uses <= max_uses and as many usage
\* records as current_uses, no user has two records of it, a call that
\* returned the awarded balance added exactly that to the balance of its
\* user, and a call that returned None, -1, -2 or -3 changed no table.
C38_CardKeyAccounting ==
    /\ kcard # None =>
          /\ kcard[1].current_uses <= kcard[1].max_uses
          /\ kcard[1].current_uses = Len(kusage)
    /\ \A i, j \in 1..Len(kusage) : kusage[i] = kusage[j] => i = j
    /\ kcall # None =>
          IF kcall[1].ret # None /\ kcall[1].ret[1] >= 0
          THEN /\ kcall[1].before # None
               /\ kcall[1].after
                      = Some(kcall[1].before[1] + kcall[1].ret[1])
          ELSE ~kcall[1].changed

\* C39 as claimed: no two successful checkins fall on one calendar day, and
\* a call of checkin that did not raise returns what can_checkin reported
\* just before it.
C39_OneCheckinPerDay ==
    /\ \A i, j \in 1..Len(cwins) : cwins[i] = cwins[j] => i = j
    /\ (ccall # None /\ ~ccall[1].raised) => ccall[1].ret = ccall[1].can

====
